---- MODULE Spec2Model ----
(* Authorization and tenant hierarchy of pandora_backend (routes/admin.py,   *)
(* core/security.py, routes/auth.py).  The relational store is one record    *)
(* `db` whose fields are the tables; every request handler is an operator    *)
(* from the store and the request to the HTTP outcome and the store after    *)
(* the commit (or the unchanged store after an HTTPException).               *)
EXTENDS Integers, FiniteSets, Sequences, TLC

VARIABLES db, tokens, last, race

vars == <<db, tokens, last, race>>

-----------------------------------------------------------------------------
(* Bounds of the model.                                                      *)

MaxOrgs == 2
MaxClients == 2
MaxUsers == 3
MaxDatabases == 2
MaxAccesses == 2
(* Users in SpecOrg, the super admin included.                              *)
MaxOrgUsers == 2
MaxAuditRows == 2
MaxTicks == 6
TicksPerSecond == 3
(* The time of every login in the specifications that have no clock.         *)
LoginTime == 1
(* The clock of SpecSession and SpecSweep runs from 1 to MaxClock.           *)
MaxClock == 4
(* Minutes in one tick of the clock.                                         *)
TickMinutes == 15
(* timedelta(hours=0.5) of list_users, in ticks.                             *)
InactivityLimit == 30 \div TickMinutes

(* SQL NULL of a nullable integer column (client_id). Ids start at 1.        *)
NULL == 0

Roles == {"super_admin", "admin", "user"}
OrgNames == {"acme", "beta"}
ClientNames == {"north", "south"}
UserNames == {"ann", "bob"}
DbNames == {"sales", "stock"}

-----------------------------------------------------------------------------
(* Helpers on tables: a table is a function from the ids of its rows.        *)

Ids(t) == DOMAIN t

Insert(t, id, row) == [i \in Ids(t) \cup {id} |-> IF i = id THEN row ELSE t[i]]

Remove(t, gone) == [i \in Ids(t) \ gone |-> t[i]]

(* AUTO_INCREMENT: the id the next INSERT into a table receives.             *)
Bump(s, table) == [s.next EXCEPT ![table] = @ + 1]

(* The response of a handler: status code, the raise site (detail), the id   *)
(* of a row it created (0 when none), the per-database results of a bulk     *)
(* request and the store afterwards.                                         *)
Reply(code, detail, made, s) ==
    [code |-> code, detail |-> detail, made |-> made, items |-> <<>>, db |-> s]

Raise(code, detail, s) == Reply(code, detail, 0, s)

(* A close of the session that writes the pending assignments to the store.  *)
close_flushing(committed, pending) == pending

(* get_db closes the session when the request ends: what the handler         *)
(* assigned to its objects and never committed is discarded, and the store   *)
(* is as it was at the last commit.                                          *)
close(committed, pending) == committed

-----------------------------------------------------------------------------
(* core/security.py require_role: the token's user must exist and be active, *)
(* and the role carried by the token must be one of the allowed roles.  The  *)
(* handler then receives the stored user row.  Result: "" when the request   *)
(* passes, else the detail of the 403.                                       *)

require_role(s, tok, roles) ==
    IF tok.id \notin Ids(s.users) \/ ~s.users[tok.id].is_active THEN "inactive"
    ELSE IF tok.role \notin roles THEN "role"
    ELSE ""

-----------------------------------------------------------------------------
(* Organizations.  db.delete(org) of an organization that users still point  *)
(* to blanks their organization_id: Organization.users is a one-to-many      *)
(* relationship without delete cascade and the column is nullable.           *)

create_organization(s, tok, name, is_root) ==
    LET gate == require_role(s, tok, {"super_admin"})
        id == s.next.organizations
    IN  IF gate # "" THEN Raise(403, gate, s)
        ELSE IF \E o \in Ids(s.organizations) : s.organizations[o].name = name
        THEN Raise(400, "name_exists", s)
        ELSE Reply(201, "", id,
                   [s EXCEPT !.organizations =
                                 Insert(@, id, [name |-> name, is_root |-> is_root]),
                             !.next = Bump(s, "organizations")])

(* update_organization without the test of lines 181-185.                    *)
update_organization_unguarded(s, tok, org_id, name, is_root) ==
    LET gate == require_role(s, tok, {"super_admin"})
    IN  IF gate # "" THEN Raise(403, gate, s)
        ELSE IF org_id \notin Ids(s.organizations) THEN Raise(404, "org_not_found", s)
        ELSE IF /\ name # s.organizations[org_id].name
                /\ \E o \in Ids(s.organizations) \ {org_id} : s.organizations[o].name = name
        THEN Raise(400, "name_exists", s)
        ELSE Reply(200, "", 0,
                   [s EXCEPT !.organizations[org_id] =
                                 [name |-> name, is_root |-> is_root]])

update_organization(s, tok, org_id, name, is_root) ==
    LET gate == require_role(s, tok, {"super_admin"})
    IN  IF gate # "" THEN Raise(403, gate, s)
        ELSE IF org_id \notin Ids(s.organizations) THEN Raise(404, "org_not_found", s)
        ELSE IF /\ name # s.organizations[org_id].name
                /\ \E o \in Ids(s.organizations) \ {org_id} : s.organizations[o].name = name
        THEN Raise(400, "name_exists", s)
        ELSE IF s.organizations[org_id].is_root /\ ~is_root
        THEN Raise(403, "remove_root", s)
        ELSE Reply(200, "", 0,
                   [s EXCEPT !.organizations[org_id] =
                                 [name |-> name, is_root |-> is_root]])

(* delete_organization without the count of clients of lines 221-224.        *)
delete_organization_uncounted(s, tok, org_id) ==
    LET gate == require_role(s, tok, {"super_admin"})
    IN  IF gate # "" THEN Raise(403, gate, s)
        ELSE IF org_id \notin Ids(s.organizations) THEN Raise(404, "org_not_found", s)
        ELSE IF s.organizations[org_id].is_root THEN Raise(403, "root_org", s)
        ELSE Reply(200, "", 0,
                   [s EXCEPT !.organizations = Remove(@, {org_id}),
                             !.users = [u \in Ids(@) |->
                                 IF @[u].organization_id = org_id
                                 THEN [@[u] EXCEPT !.organization_id = NULL]
                                 ELSE @[u]]])

delete_organization(s, tok, org_id) ==
    LET gate == require_role(s, tok, {"super_admin"})
    IN  IF gate # "" THEN Raise(403, gate, s)
        ELSE IF org_id \notin Ids(s.organizations) THEN Raise(404, "org_not_found", s)
        ELSE IF s.organizations[org_id].is_root THEN Raise(403, "root_org", s)
        ELSE IF \E c \in Ids(s.clients) : s.clients[c].organization_id = org_id
        THEN Raise(400, "has_clients", s)
        ELSE Reply(200, "", 0,
                   [s EXCEPT !.organizations = Remove(@, {org_id}),
                             !.users = [u \in Ids(@) |->
                                 IF @[u].organization_id = org_id
                                 THEN [@[u] EXCEPT !.organization_id = NULL]
                                 ELSE @[u]]])

-----------------------------------------------------------------------------
(* Clients.  db.delete(client) blanks client_id in the rows of               *)
(* Client.databases; client_databases.client_id is NOT NULL, so the flush    *)
(* raises IntegrityError, the request ends 500 and the session is rolled     *)
(* back on close.                                                            *)

create_client(s, tok, name, organization_id) ==
    LET gate == require_role(s, tok, {"super_admin"})
        id == s.next.clients
    IN  IF gate # "" THEN Raise(403, gate, s)
        ELSE IF \E c \in Ids(s.clients) : s.clients[c].name = name
        THEN Raise(400, "name_exists", s)
        ELSE IF organization_id \notin Ids(s.organizations)
        THEN Raise(404, "org_not_found", s)
        ELSE Reply(201, "", id,
                   [s EXCEPT !.clients = Insert(@, id,
                                 [name |-> name, organization_id |-> organization_id]),
                             !.next = Bump(s, "clients")])

(* delete_client without the count of users of lines 320-325.                *)
delete_client_uncounted(s, tok, client_id) ==
    LET gate == require_role(s, tok, {"super_admin"})
    IN  IF gate # "" THEN Raise(403, gate, s)
        ELSE IF client_id \notin Ids(s.clients) THEN Raise(404, "client_not_found", s)
        ELSE IF /\ s.clients[client_id].organization_id \in Ids(s.organizations)
                /\ s.organizations[s.clients[client_id].organization_id].is_root
        THEN Raise(403, "root_org", s)
        ELSE IF \E d \in Ids(s.client_databases) : s.client_databases[d].client_id = client_id
        THEN Raise(500, "integrity", s)
        ELSE Reply(200, "", 0, [s EXCEPT !.clients = Remove(@, {client_id})])

delete_client(s, tok, client_id) ==
    LET gate == require_role(s, tok, {"super_admin"})
    IN  IF gate # "" THEN Raise(403, gate, s)
        ELSE IF client_id \notin Ids(s.clients) THEN Raise(404, "client_not_found", s)
        ELSE IF /\ s.clients[client_id].organization_id \in Ids(s.organizations)
                /\ s.organizations[s.clients[client_id].organization_id].is_root
        THEN Raise(403, "root_org", s)
        ELSE IF \E u \in Ids(s.users) : s.users[u].client_id = client_id
        THEN Raise(400, "has_users", s)
        ELSE IF \E d \in Ids(s.client_databases) : s.client_databases[d].client_id = client_id
        THEN Raise(500, "integrity", s)
        ELSE Reply(200, "", 0, [s EXCEPT !.clients = Remove(@, {client_id})])

update_client(s, tok, client_id, name, organization_id) ==
    LET gate == require_role(s, tok, {"super_admin"})
    IN  IF gate # "" THEN Raise(403, gate, s)
        ELSE IF client_id \notin Ids(s.clients) THEN Raise(404, "client_not_found", s)
        ELSE IF /\ name # s.clients[client_id].name
                /\ \E c \in Ids(s.clients) \ {client_id} : s.clients[c].name = name
        THEN Raise(400, "name_exists", s)
        ELSE IF /\ organization_id # s.clients[client_id].organization_id
                /\ organization_id \notin Ids(s.organizations)
        THEN Raise(404, "org_not_found", s)
        ELSE Reply(200, "", 0,
                   [s EXCEPT !.clients[client_id] =
                                 [name |-> name, organization_id |-> organization_id]])

-----------------------------------------------------------------------------
(* Users.  The handlers branch on the role of the stored user row returned   *)
(* by require_role, not on the role in the token.                            *)

(* A column default replaces a None passed to the constructor                *)
(* (users.organization_id has default=1).                                    *)
OrgDefault(organization_id) == IF organization_id = NULL THEN 1 ELSE organization_id

create_user(s, tok, username, role, is_active, client_id, organization_id) ==
    LET gate == require_role(s, tok, {"admin", "super_admin"})
        user == s.users[tok.id]
        id == s.next.users
        asAdmin == user.role = "admin"
        new_client == IF asAdmin THEN user.client_id ELSE client_id
        new_org == IF asAdmin THEN OrgDefault(user.organization_id)
                   ELSE IF client_id # NULL /\ client_id \in Ids(s.clients)
                        THEN s.clients[client_id].organization_id
                        ELSE OrgDefault(organization_id)
    IN  IF gate # "" THEN Raise(403, gate, s)
        ELSE IF \E u \in Ids(s.users) : s.users[u].username = username
        THEN Raise(400, "username_exists", s)
        ELSE IF role \notin Roles THEN Raise(400, "invalid_role", s)
        ELSE IF asAdmin /\ user.client_id = NULL THEN Raise(403, "no_client", s)
        ELSE IF ~asAdmin /\ client_id # NULL /\ client_id \notin Ids(s.clients)
        THEN Raise(404, "client_not_found", s)
        ELSE IF new_org \notin Ids(s.organizations) THEN Raise(500, "integrity", s)
        ELSE Reply(201, "", id,
                   [s EXCEPT !.users = Insert(@, id,
                                 [username |-> username, role |-> role,
                                  client_id |-> new_client,
                                  organization_id |-> new_org,
                                  is_active |-> is_active, last_login |-> NULL]),
                             !.next = Bump(s, "users")])

(* The rows delete_user removes before it deletes the user (lines 507-512). *)
ChatsOf(s, user_id) == {c \in Ids(s.chats) : s.chats[c].user_id = user_id}

MessagesOf(s, user_id) ==
    {m \in Ids(s.messages) : s.messages[m].chat_id \in ChatsOf(s, user_id)}

PermissionsOf(s, user_id) ==
    {p \in Ids(s.user_permissions) : s.user_permissions[p].user_id = user_id}

(* delete_user without the delete of the messages (lines 507-509).           *)
delete_user_keeping_messages(s, tok, user_id) ==
    LET gate == require_role(s, tok, {"admin", "super_admin"})
        user == s.users[tok.id]
        target == s.users[user_id]
    IN  IF gate # "" THEN Raise(403, gate, s)
        ELSE IF user_id \notin Ids(s.users) THEN Raise(404, "user_not_found", s)
        ELSE IF user.role = "admin" /\ target.client_id # user.client_id
        THEN Raise(403, "other_client", s)
        ELSE IF target.role = "super_admin" THEN Raise(403, "super_admin_target", s)
        ELSE IF /\ target.organization_id # NULL
                /\ target.organization_id \in Ids(s.organizations)
                /\ s.organizations[target.organization_id].is_root
        THEN Raise(403, "root_org", s)
        ELSE IF \/ \E a \in Ids(s.user_database_access) :
                       s.user_database_access[a].user_id = user_id
                \/ \E r \in Ids(s.message_ratings) : s.message_ratings[r].user_id = user_id
        THEN Raise(500, "integrity", s)
        ELSE Reply(200, "", 0,
                   [s EXCEPT !.chats = Remove(@, ChatsOf(s, user_id)),
                             !.user_permissions = Remove(@, PermissionsOf(s, user_id)),
                             !.users = Remove(@, {user_id})])

(* db.delete(target) blanks user_id in the rows of the backref               *)
(* User.database_accesses; the column is NOT NULL, so a user who still has   *)
(* grants cannot be deleted: the flush raises and the request ends 500.      *)
(* The same happens through the foreign key of message_ratings.user_id,      *)
(* which has no ON DELETE rule.  The deletes of lines 507-512 ran in the     *)
(* transaction that is then never committed, so the store is as before.      *)
delete_user(s, tok, user_id) ==
    LET gate == require_role(s, tok, {"admin", "super_admin"})
        user == s.users[tok.id]
        target == s.users[user_id]
    IN  IF gate # "" THEN Raise(403, gate, s)
        ELSE IF user_id \notin Ids(s.users) THEN Raise(404, "user_not_found", s)
        ELSE IF user.role = "admin" /\ target.client_id # user.client_id
        THEN Raise(403, "other_client", s)
        ELSE IF target.role = "super_admin" THEN Raise(403, "super_admin_target", s)
        ELSE IF /\ target.organization_id # NULL
                /\ target.organization_id \in Ids(s.organizations)
                /\ s.organizations[target.organization_id].is_root
        THEN Raise(403, "root_org", s)
        ELSE IF \/ \E a \in Ids(s.user_database_access) :
                       s.user_database_access[a].user_id = user_id
                \/ \E r \in Ids(s.message_ratings) : s.message_ratings[r].user_id = user_id
        THEN Raise(500, "integrity", s)
        ELSE Reply(200, "", 0,
                   [s EXCEPT !.messages = Remove(@, MessagesOf(s, user_id)),
                             !.chats = Remove(@, ChatsOf(s, user_id)),
                             !.user_permissions = Remove(@, PermissionsOf(s, user_id)),
                             !.users = Remove(@, {user_id})])

(* update_user without the test of lines 542-543.                            *)
update_user_unprotected(s, tok, user_id, username, role, is_active, client_id) ==
    LET gate == require_role(s, tok, {"admin", "super_admin"})
        user == s.users[tok.id]
        target == s.users[user_id]
        roleAfter == IF tok.id = user_id THEN role ELSE user.role
        moves == roleAfter = "super_admin" /\ client_id # NULL
                 /\ client_id # target.client_id
        assigned == [s EXCEPT !.users[user_id] =
                        [target EXCEPT !.username = username, !.role = role,
                                       !.is_active = is_active]]
    IN  IF gate # "" THEN Raise(403, gate, s)
        ELSE IF user_id \notin Ids(s.users) THEN Raise(404, "user_not_found", s)
        ELSE IF user.role = "admin" /\ target.client_id # user.client_id
        THEN Raise(403, "other_client", s)
        ELSE IF /\ username # target.username
                /\ \E u \in Ids(s.users) \ {user_id} : s.users[u].username = username
        THEN Raise(400, "username_exists", s)
        ELSE IF role \notin Roles THEN Raise(400, "invalid_role", s)
        ELSE IF role = "super_admin" /\ user.role # "super_admin"
        THEN Raise(403, "promote", s)
        ELSE IF moves /\ client_id \notin Ids(s.clients)
        THEN Raise(404, "client_not_found", close(s, assigned))
        ELSE Reply(200, "", 0,
                   [s EXCEPT !.users[user_id] =
                       [username |-> username, role |-> role, is_active |-> is_active,
                        last_login |-> target.last_login,
                        client_id |-> IF moves THEN client_id ELSE target.client_id,
                        organization_id |->
                            IF moves THEN s.clients[client_id].organization_id
                            ELSE target.organization_id]])

(* `user` and `target` are the same object of the session when a user        *)
(* updates its own row, so the role test of line 585 reads the role just     *)
(* assigned at line 577.                                                     *)
update_user(s, tok, user_id, username, role, is_active, client_id) ==
    LET gate == require_role(s, tok, {"admin", "super_admin"})
        user == s.users[tok.id]
        target == s.users[user_id]
        roleAfter == IF tok.id = user_id THEN role ELSE user.role
        moves == roleAfter = "super_admin" /\ client_id # NULL
                 /\ client_id # target.client_id
        assigned == [s EXCEPT !.users[user_id] =
                        [target EXCEPT !.username = username, !.role = role,
                                       !.is_active = is_active]]
    IN  IF gate # "" THEN Raise(403, gate, s)
        ELSE IF user_id \notin Ids(s.users) THEN Raise(404, "user_not_found", s)
        ELSE IF user.role = "admin" /\ target.client_id # user.client_id
        THEN Raise(403, "other_client", s)
        ELSE IF target.role = "super_admin" /\ user.role # "super_admin"
        THEN Raise(403, "super_admin_target", s)
        ELSE IF /\ username # target.username
                /\ \E u \in Ids(s.users) \ {user_id} : s.users[u].username = username
        THEN Raise(400, "username_exists", s)
        ELSE IF role \notin Roles THEN Raise(400, "invalid_role", s)
        ELSE IF role = "super_admin" /\ user.role # "super_admin"
        THEN Raise(403, "promote", s)
        ELSE IF moves /\ client_id \notin Ids(s.clients)
        THEN Raise(404, "client_not_found", close(s, assigned))
        ELSE Reply(200, "", 0,
                   [s EXCEPT !.users[user_id] =
                       [username |-> username, role |-> role, is_active |-> is_active,
                        last_login |-> target.last_login,
                        client_id |-> IF moves THEN client_id ELSE target.client_id,
                        organization_id |->
                            IF moves THEN s.clients[client_id].organization_id
                            ELSE target.organization_id]])

promote_to_super_admin(s, tok, user_id) ==
    LET gate == require_role(s, tok, {"super_admin"})
    IN  IF gate # "" THEN Raise(403, gate, s)
        ELSE IF user_id \notin Ids(s.users) THEN Raise(404, "user_not_found", s)
        ELSE Reply(200, "", 0, [s EXCEPT !.users[user_id].role = "super_admin"])

(* demote_from_super_admin without the test of lines 1015-1016.              *)
demote_from_super_admin_any(s, tok, user_id) ==
    LET gate == require_role(s, tok, {"super_admin"})
    IN  IF gate # "" THEN Raise(403, gate, s)
        ELSE IF user_id \notin Ids(s.users) THEN Raise(404, "user_not_found", s)
        ELSE Reply(200, "", 0, [s EXCEPT !.users[user_id].role = "admin"])

demote_from_super_admin(s, tok, user_id) ==
    LET gate == require_role(s, tok, {"super_admin"})
    IN  IF gate # "" THEN Raise(403, gate, s)
        ELSE IF user_id \notin Ids(s.users) THEN Raise(404, "user_not_found", s)
        ELSE IF s.users[user_id].role # "super_admin"
        THEN Raise(400, "not_super_admin", s)
        ELSE Reply(200, "", 0, [s EXCEPT !.users[user_id].role = "admin"])

-----------------------------------------------------------------------------
(* Databases.  db.delete(target) blanks database_id in the rows of the       *)
(* backref ClientDatabase.user_accesses; the column is NOT NULL, so a        *)
(* database that still has grants cannot be deleted.                         *)

create_database(s, tok, name, client_id) ==
    LET gate == require_role(s, tok, {"admin", "super_admin"})
        user == s.users[tok.id]
        id == s.next.client_databases
        cid == IF user.role = "super_admin" THEN client_id ELSE user.client_id
    IN  IF gate # "" THEN Raise(403, gate, s)
        ELSE IF user.role # "super_admin" /\ user.client_id = NULL
        THEN Raise(403, "no_client", s)
        ELSE IF cid \notin Ids(s.clients) THEN Raise(404, "client_not_found", s)
        ELSE IF user.role = "admin" /\ cid # user.client_id
        THEN Raise(403, "other_client", s)
        ELSE Reply(201, "", id,
                   [s EXCEPT !.client_databases =
                                 Insert(@, id, [name |-> name, client_id |-> cid]),
                             !.next = Bump(s, "client_databases")])

(* delete_database without the test of lines 704-707.                        *)
delete_database_unscoped(s, tok, database_id) ==
    LET gate == require_role(s, tok, {"admin", "super_admin"})
        target == s.client_databases[database_id]
        client == s.clients[target.client_id]
    IN  IF gate # "" THEN Raise(403, gate, s)
        ELSE IF database_id \notin Ids(s.client_databases)
        THEN Raise(404, "database_not_found", s)
        ELSE IF /\ target.client_id \in Ids(s.clients)
                /\ client.organization_id \in Ids(s.organizations)
                /\ s.organizations[client.organization_id].is_root
        THEN Raise(403, "root_org", s)
        ELSE IF \E a \in Ids(s.user_database_access) :
                    s.user_database_access[a].database_id = database_id
        THEN Raise(500, "integrity", s)
        ELSE Reply(200, "", 0,
                   [s EXCEPT !.client_databases = Remove(@, {database_id})])

delete_database(s, tok, database_id) ==
    LET gate == require_role(s, tok, {"admin", "super_admin"})
        user == s.users[tok.id]
        target == s.client_databases[database_id]
        client == s.clients[target.client_id]
    IN  IF gate # "" THEN Raise(403, gate, s)
        ELSE IF database_id \notin Ids(s.client_databases)
        THEN Raise(404, "database_not_found", s)
        ELSE IF /\ target.client_id \in Ids(s.clients)
                /\ client.organization_id \in Ids(s.organizations)
                /\ s.organizations[client.organization_id].is_root
        THEN Raise(403, "root_org", s)
        ELSE IF /\ user.role = "admin"
                /\ (user.client_id = NULL \/ target.client_id # user.client_id)
        THEN Raise(403, "other_client", s)
        ELSE IF \E a \in Ids(s.user_database_access) :
                    s.user_database_access[a].database_id = database_id
        THEN Raise(500, "integrity", s)
        ELSE Reply(200, "", 0,
                   [s EXCEPT !.client_databases = Remove(@, {database_id})])

update_database(s, tok, database_id, name, client_id) ==
    LET gate == require_role(s, tok, {"admin", "super_admin"})
        user == s.users[tok.id]
        target == s.client_databases[database_id]
        moves == user.role = "super_admin" /\ client_id # target.client_id
        assigned == [s EXCEPT !.client_databases[database_id].name = name]
    IN  IF gate # "" THEN Raise(403, gate, s)
        ELSE IF database_id \notin Ids(s.client_databases)
        THEN Raise(404, "database_not_found", s)
        ELSE IF /\ user.role = "admin"
                /\ (user.client_id = NULL \/ target.client_id # user.client_id)
        THEN Raise(403, "other_client", s)
        ELSE IF moves /\ client_id \notin Ids(s.clients)
        THEN Raise(404, "client_not_found", close(s, assigned))
        ELSE Reply(200, "", 0,
                   [s EXCEPT !.client_databases[database_id] =
                       [name |-> name,
                        client_id |-> IF moves THEN client_id ELSE target.client_id]])

-----------------------------------------------------------------------------
(* Grants (user_database_access).  The table has no unique constraint on     *)
(* (user_id, database_id): the handlers look for an existing row first.      *)

GrantsOf(s, user_id, database_id) ==
    {a \in Ids(s.user_database_access) :
        /\ s.user_database_access[a].user_id = user_id
        /\ s.user_database_access[a].database_id = database_id}

NewGrant(s, user_id, database_id, can_read, can_write) ==
    [s EXCEPT !.user_database_access =
                  Insert(@, s.next.user_database_access,
                         [user_id |-> user_id, database_id |-> database_id,
                          can_read |-> can_read, can_write |-> can_write]),
              !.next = Bump(s, "user_database_access")]

(* create_database_access without the test of lines 1267-1271.               *)
create_database_access_mixed(s, tok, user_id, database_id, can_read, can_write) ==
    LET gate == require_role(s, tok, {"admin", "super_admin"})
        user == s.users[tok.id]
        target_user == s.users[user_id]
        target_db == s.client_databases[database_id]
    IN  IF gate # "" THEN Raise(403, gate, s)
        ELSE IF user_id \notin Ids(s.users) THEN Raise(404, "user_not_found", s)
        ELSE IF database_id \notin Ids(s.client_databases)
        THEN Raise(404, "database_not_found", s)
        ELSE IF user.role # "super_admin" /\ user.client_id = NULL
        THEN Raise(403, "no_client", s)
        ELSE IF user.role # "super_admin" /\ target_user.client_id # user.client_id
        THEN Raise(403, "other_client_user", s)
        ELSE IF user.role # "super_admin" /\ target_db.client_id # user.client_id
        THEN Raise(403, "other_client_database", s)
        ELSE IF GrantsOf(s, user_id, database_id) # {}
        THEN Raise(400, "access_exists", s)
        ELSE Reply(200, "", s.next.user_database_access,
                   NewGrant(s, user_id, database_id, can_read, can_write))

create_database_access(s, tok, user_id, database_id, can_read, can_write) ==
    LET gate == require_role(s, tok, {"admin", "super_admin"})
        user == s.users[tok.id]
        target_user == s.users[user_id]
        target_db == s.client_databases[database_id]
    IN  IF gate # "" THEN Raise(403, gate, s)
        ELSE IF user_id \notin Ids(s.users) THEN Raise(404, "user_not_found", s)
        ELSE IF database_id \notin Ids(s.client_databases)
        THEN Raise(404, "database_not_found", s)
        ELSE IF user.role # "super_admin" /\ user.client_id = NULL
        THEN Raise(403, "no_client", s)
        ELSE IF user.role # "super_admin" /\ target_user.client_id # user.client_id
        THEN Raise(403, "other_client_user", s)
        ELSE IF user.role # "super_admin" /\ target_db.client_id # user.client_id
        THEN Raise(403, "other_client_database", s)
        ELSE IF target_user.client_id # target_db.client_id
        THEN Raise(400, "different_clients", s)
        ELSE IF GrantsOf(s, user_id, database_id) # {}
        THEN Raise(400, "access_exists", s)
        ELSE Reply(200, "", s.next.user_database_access,
                   NewGrant(s, user_id, database_id, can_read, can_write))

(* One round of the loop of create_bulk_database_access: the result for the  *)
(* database and the session after it.                                        *)
BulkItem(s, user, user_id, db_id) ==
    IF db_id \notin Ids(s.client_databases) THEN "not_found"
    ELSE IF /\ user.role # "super_admin"
            /\ s.client_databases[db_id].client_id # user.client_id
    THEN "other_client_database"
    ELSE IF s.users[user_id].client_id # s.client_databases[db_id].client_id
    THEN "different_clients"
    ELSE IF GrantsOf(s, user_id, db_id) # {} THEN "skipped"
    ELSE "created"

RECURSIVE BulkLoop(_, _, _, _, _, _)
BulkLoop(s, user, user_id, database_ids, can_read, can_write) ==
    IF database_ids = <<>> THEN [db |-> s, items |-> <<>>]
    ELSE LET item == BulkItem(s, user, user_id, Head(database_ids))
             s1 == IF item = "created"
                   THEN NewGrant(s, user_id, Head(database_ids), can_read, can_write)
                   ELSE s
             rest == BulkLoop(s1, user, user_id, Tail(database_ids), can_read, can_write)
         IN  [db |-> rest.db, items |-> <<item>> \o rest.items]

create_bulk_database_access(s, tok, user_id, database_ids, can_read, can_write) ==
    LET gate == require_role(s, tok, {"admin", "super_admin"})
        user == s.users[tok.id]
        done == BulkLoop(s, user, user_id, database_ids, can_read, can_write)
    IN  IF gate # "" THEN Raise(403, gate, s)
        ELSE IF user_id \notin Ids(s.users) THEN Raise(404, "user_not_found", s)
        ELSE IF user.role # "super_admin" /\ user.client_id = NULL
        THEN Raise(403, "no_client", s)
        ELSE IF user.role # "super_admin" /\ s.users[user_id].client_id # user.client_id
        THEN Raise(403, "other_client_user", s)
        ELSE [code |-> 200, detail |-> "", made |-> 0, items |-> done.items,
              db |-> done.db]

(* The scope test of update_database_access and delete_database_access.      *)
AccessScope(s, user, access) ==
    IF user.role = "super_admin" THEN ""
    ELSE IF user.client_id = NULL THEN "no_client"
    ELSE IF /\ access.user_id \in Ids(s.users)
            /\ s.users[access.user_id].client_id # user.client_id
    THEN "other_client_user"
    ELSE IF /\ access.database_id \in Ids(s.client_databases)
            /\ s.client_databases[access.database_id].client_id # user.client_id
    THEN "other_client_database"
    ELSE ""

update_database_access(s, tok, access_id, can_read, can_write) ==
    LET gate == require_role(s, tok, {"admin", "super_admin"})
        access == s.user_database_access[access_id]
        scope == AccessScope(s, s.users[tok.id], access)
    IN  IF gate # "" THEN Raise(403, gate, s)
        ELSE IF access_id \notin Ids(s.user_database_access)
        THEN Raise(404, "access_not_found", s)
        ELSE IF scope # "" THEN Raise(403, scope, s)
        ELSE Reply(200, "", 0,
                   [s EXCEPT !.user_database_access[access_id] =
                       [access EXCEPT !.can_read = can_read, !.can_write = can_write]])

delete_database_access(s, tok, access_id) ==
    LET gate == require_role(s, tok, {"admin", "super_admin"})
        access == s.user_database_access[access_id]
        scope == AccessScope(s, s.users[tok.id], access)
    IN  IF gate # "" THEN Raise(403, gate, s)
        ELSE IF access_id \notin Ids(s.user_database_access)
        THEN Raise(404, "access_not_found", s)
        ELSE IF scope # "" THEN Raise(403, scope, s)
        ELSE Reply(200, "", 0,
                   [s EXCEPT !.user_database_access = Remove(@, {access_id})])

revoke_all_user_database_access(s, tok, user_id) ==
    LET gate == require_role(s, tok, {"admin", "super_admin"})
        user == s.users[tok.id]
    IN  IF gate # "" THEN Raise(403, gate, s)
        ELSE IF user_id \notin Ids(s.users) THEN Raise(404, "user_not_found", s)
        ELSE IF user.role # "super_admin" /\ user.client_id = NULL
        THEN Raise(403, "no_client", s)
        ELSE IF user.role # "super_admin" /\ s.users[user_id].client_id # user.client_id
        THEN Raise(403, "other_client_user", s)
        ELSE Reply(200, "", 0,
                   [s EXCEPT !.user_database_access =
                       Remove(@, {a \in Ids(@) : @[a].user_id = user_id})])

-----------------------------------------------------------------------------
(* Listings.  Times are counted in ticks of TickMinutes minutes, from 1; a   *)
(* last_login of NULL is the SQL NULL of a user who never logged in, and no  *)
(* comparison with it is true.                                               *)

(* The users the sweep of list_users selects at time `now`, when it lets a   *)
(* last_login of one tick before the cutoff pass.                            *)
Outdated_late(s, now) ==
    {u \in Ids(s.users) : /\ s.users[u].is_active
                          /\ s.users[u].last_login # NULL
                          /\ s.users[u].last_login + 1 < now - InactivityLimit}

(* The users the sweep of list_users selects at time `now`: cutoff is now    *)
(* minus half an hour.                                                       *)
Outdated(s, now) ==
    {u \in Ids(s.users) : /\ s.users[u].is_active
                          /\ s.users[u].last_login # NULL
                          /\ s.users[u].last_login < now - InactivityLimit}

Deactivate(s, outdated) ==
    [s EXCEPT !.users = [u \in Ids(@) |->
                            IF u \in outdated THEN [@[u] EXCEPT !.is_active = FALSE]
                            ELSE @[u]]]

(* The ids of the rows of a response, in ascending order.                    *)
RECURSIVE Ascending(_)
Ascending(ids) ==
    IF ids = {} THEN <<>>
    ELSE LET least == CHOOSE i \in ids : \A j \in ids : i <= j
         IN  <<least>> \o Ascending(ids \ {least})

Listing(ids, s) == [Reply(200, "", 0, s) EXCEPT !.items = Ascending(ids)]

(* The sweep is committed at line 400, before the caller's client is looked  *)
(* at: the store of every reply but the gate's is the swept one.             *)
list_users(s, tok, now) ==
    LET gate == require_role(s, tok, {"admin", "super_admin"})
        swept == Deactivate(s, Outdated(s, now))
        user == swept.users[tok.id]
    IN  IF gate # "" THEN Raise(403, gate, s)
        ELSE IF user.role = "super_admin" THEN Listing(Ids(swept.users), swept)
        ELSE IF user.client_id = NULL THEN Raise(403, "no_client", swept)
        ELSE Listing({u \in Ids(swept.users) : swept.users[u].client_id = user.client_id},
                     swept)

list_databases(s, tok) ==
    LET gate == require_role(s, tok, {"admin", "super_admin"})
        user == s.users[tok.id]
    IN  IF gate # "" THEN Raise(403, gate, s)
        ELSE IF user.role = "super_admin" THEN Listing(Ids(s.client_databases), s)
        ELSE IF user.client_id = NULL THEN Raise(403, "no_client", s)
        ELSE Listing({d \in Ids(s.client_databases) :
                          s.client_databases[d].client_id = user.client_id}, s)

list_clients(s, tok) ==
    LET gate == require_role(s, tok, {"admin", "super_admin"})
        user == s.users[tok.id]
    IN  IF gate # "" THEN Raise(403, gate, s)
        ELSE IF user.role = "super_admin" THEN Listing(Ids(s.clients), s)
        ELSE IF user.client_id = NULL THEN Raise(403, "no_client", s)
        ELSE Listing({c \in Ids(s.clients) : c = user.client_id}, s)

(* The grants that pass the optional filters of lines 1090-1093; a filter of *)
(* NULL is not applied.                                                      *)
Filtered(s, user_id, database_id) ==
    {a \in Ids(s.user_database_access) :
        /\ user_id # NULL => s.user_database_access[a].user_id = user_id
        /\ database_id # NULL => s.user_database_access[a].database_id = database_id}

(* user_database_access has two foreign keys to users (user_id and           *)
(* created_by), and query.join(User) of line 1087 names no ON clause: the    *)
(* join cannot be determined and the request of a caller who is not          *)
(* super_admin ends in an unhandled error.                                   *)
list_database_access(s, tok, user_id, database_id) ==
    LET gate == require_role(s, tok, {"admin", "super_admin"})
        user == s.users[tok.id]
    IN  IF gate # "" THEN Raise(403, gate, s)
        ELSE IF user.role = "super_admin"
        THEN Listing(Filtered(s, user_id, database_id), s)
        ELSE IF user.client_id = NULL THEN Raise(403, "no_client", s)
        ELSE Raise(500, "ambiguous_join", s)

-----------------------------------------------------------------------------
(* Text.  A string that is lowercased, matched or concatenated is the        *)
(* sequence of its characters.                                               *)

Chars(name) ==
    CASE name = "north" -> <<"n", "o", "r", "t", "h">>
      [] name = "south" -> <<"s", "o", "u", "t", "h">>
      [] name = "west" -> <<"w", "e", "s", "t">>
      [] name = "sales" -> <<"s", "a", "l", "e", "s">>
      [] name = "stock" -> <<"s", "t", "o", "c", "k">>
      [] name = "/chat/" -> <<"/", "c", "h", "a", "t", "/">>
      [] name = "/" -> <<"/">>

(* str.lower on the letters that occur in upper case here.                   *)
LowerChar(c) ==
    CASE c = "N" -> "n" [] c = "O" -> "o" [] c = "R" -> "r" [] c = "T" -> "t"
      [] c = "H" -> "h" [] c = "S" -> "s" [] c = "U" -> "u" [] OTHER -> c

Lower(text) == [i \in DOMAIN text |-> LowerChar(text[i])]

(* SQL LIKE: % matches any run of characters, _ any one character.           *)
RECURSIVE Like(_, _)
Like(text, pattern) ==
    IF pattern = <<>> THEN text = <<>>
    ELSE IF Head(pattern) = "%"
    THEN Like(text, Tail(pattern)) \/ (text # <<>> /\ Like(Tail(text), pattern))
    ELSE /\ text # <<>>
         /\ Head(pattern) = "_" \/ Head(pattern) = Head(text)
         /\ Like(Tail(text), Tail(pattern))

(* Column.ilike(pattern): lower(column) LIKE lower(pattern).                 *)
ILike(text, pattern) == Like(Lower(text), Lower(pattern))

-----------------------------------------------------------------------------
(* routes/sql_proxy.py, core/core_resolver.py, core/audit.py log_unified.    *)
(* The principal of generate_sql is the dict of get_current_user: the id and *)
(* the role of the token.  Query.first() without ORDER BY returns any one of *)
(* the matching rows, so the caller of these operators chooses it (`pick`).  *)

DatabasesNamed(s, database_name) ==
    {d \in Ids(s.client_databases) : s.client_databases[d].name = database_name}

ReadGrants(s, user_id, database_id) ==
    {a \in GrantsOf(s, user_id, database_id) : s.user_database_access[a].can_read}

(* check_database_access without the can_read filter of line 37.            *)
check_database_access_unread(s, tok, database_name, pick) ==
    IF tok.role = "super_admin" THEN 200
    ELSE IF DatabasesNamed(s, database_name) = {} THEN 404
    ELSE IF GrantsOf(s, tok.id, pick) = {} THEN 403
    ELSE 200

(* 200 when the principal may read, else the status of the HTTPException.    *)
check_database_access(s, tok, database_name, pick) ==
    IF tok.role = "super_admin" THEN 200
    ELSE IF DatabasesNamed(s, database_name) = {} THEN 404
    ELSE IF ReadGrants(s, tok.id, pick) = {} THEN 403
    ELSE 200

(* The client query without its filter on the name (lines 14-16).            *)
ClientsLike_all(s, tenant_id) == Ids(s.clients)

ClientsLike(s, tenant_id) ==
    {c \in Ids(s.clients) : ILike(Chars(s.clients[c].name), tenant_id)}

(* The registry query without the is_active filter of line 26.               *)
ActiveRegistry_any(s, client_id) ==
    {r \in Ids(s.tenant_registry) : s.tenant_registry[r].client_id = client_id}

ActiveRegistry(s, client_id) ==
    {r \in Ids(s.tenant_registry) :
        /\ s.tenant_registry[r].client_id = client_id
        /\ s.tenant_registry[r].is_active}

get_core_url(s, tenant_id, client, registry) ==
    IF ClientsLike(s, tenant_id) = {} THEN [code |-> 404, core_url |-> ""]
    ELSE IF ActiveRegistry(s, client) = {} THEN [code |-> 503, core_url |-> ""]
    ELSE [code |-> 200, core_url |-> s.tenant_registry[registry].core_url]

(* client_link of generate_sql (line 68).                                    *)
client_link(tenant_id, database_name) ==
    Chars("/") \o Lower(tenant_id) \o Chars("/chat/") \o Chars(database_name)

(* log_unified without the try/except of lines 27-51: a write the store      *)
(* refuses leaves the function as an exception.                              *)
log_unified_raising(s, user_id, user_role, status, tenant_id, database_name, stored) ==
    IF stored
    THEN [made |-> s.next.audit_log, raised |-> FALSE,
          db |-> [s EXCEPT !.audit_log =
                      Insert(@, s.next.audit_log,
                             [user_id |-> user_id, user_role |-> user_role,
                              status |-> status, tenant_id |-> tenant_id,
                              database_name |-> database_name]),
                           !.next = Bump(s, "audit_log")]]
    ELSE [made |-> 0, raised |-> TRUE, db |-> s]

(* log_unified: the row is added and committed; when the store refuses the   *)
(* write (`stored` false) the exception is caught, the session is rolled     *)
(* back and None (made 0) is returned.  `raised` tells whether an exception  *)
(* leaves the function.                                                      *)
log_unified(s, user_id, user_role, status, tenant_id, database_name, stored) ==
    IF stored
    THEN [made |-> s.next.audit_log, raised |-> FALSE,
          db |-> [s EXCEPT !.audit_log =
                      Insert(@, s.next.audit_log,
                             [user_id |-> user_id, user_role |-> user_role,
                              status |-> status, tenant_id |-> tenant_id,
                              database_name |-> database_name]),
                           !.next = Bump(s, "audit_log")]]
    ELSE [made |-> 0, raised |-> FALSE, db |-> s]

(* core/audit.py log_access.  Time is counted in ticks, TicksPerSecond to    *)
(* the second.  created_at is filled by the server default now() of a        *)
(* DATETIME column, which holds whole seconds; the cutoff is computed from   *)
(* datetime.utcnow(), which has fractions of a second.  The two clocks are   *)
(* taken to agree (database server on UTC).  An admin token is a string;     *)
(* NoToken stands for None.                                                  *)
NoToken == ""

created_at_of(now) == (now \div TicksPerSecond) * TicksPerSecond

(* The rows the dedup query (lines 100-113) matches; {} when the query is    *)
(* not built (`q = None`, neither a user id nor an admin token).            *)
Recent(s, now, actor_user_id, admin_token, action, target_type, target_id, dedupe_seconds) ==
    LET cutoff == now - dedupe_seconds * TicksPerSecond
    IN  {a \in Ids(s.access_audit) :
            LET row == s.access_audit[a]
            IN  /\ row.created_at >= cutoff
                /\ IF actor_user_id # NULL THEN row.actor_user_id = actor_user_id
                   ELSE IF admin_token # NoToken THEN row.admin_token = admin_token
                   ELSE FALSE
                /\ row.action = action
                /\ row.target_type = target_type
                /\ row.target_id = target_id}

(* order_by(created_at.desc()).first(): a row of the latest created_at.      *)
Latest(s, rows) ==
    {a \in rows : \A b \in rows : s.access_audit[b].created_at <= s.access_audit[a].created_at}

(* log_access: `existing` is the row first() returns (NULL when the query    *)
(* raised or matched nothing), `stored` whether the commit succeeds.  The    *)
(* reply is the id of the returned row, NULL for a row that was not stored.  *)
log_access(s, now, actor_user_id, admin_token, action, target_type, target_id, dedupe_seconds, existing, stored) ==
    IF dedupe_seconds > 0 /\ existing # NULL
    THEN [id |-> existing, db |-> s]
    ELSE IF stored
    THEN [id |-> s.next.access_audit,
          db |-> [s EXCEPT !.access_audit =
                      Insert(@, s.next.access_audit,
                             [actor_user_id |-> actor_user_id,
                              admin_token |-> admin_token, action |-> action,
                              target_type |-> target_type, target_id |-> target_id,
                              created_at |-> created_at_of(now)]),
                           !.next = Bump(s, "access_audit")]]
    ELSE [id |-> NULL, db |-> s]

(* What the backend can answer to the forwarded request: 200 with a JSON     *)
(* object, 200 with a body that is not a JSON object, another status, or no  *)
(* answer at all (timeout, connection error).                                *)
BackendAnswers == {"ok", "garbled", "status", "transport"}

(* generate_sql without the test of core_response.status_code of line 91.    *)
AfterForward_unchecked(answer) ==
    CASE answer \in {"ok", "status"} -> [code |-> 200, status |-> "success"]
      [] OTHER -> [code |-> 500, status |-> "error"]

(* Lines 89-160 of generate_sql: the status of the reply and the status of   *)
(* the audit row for an answer of the backend.                               *)
AfterForward(answer) ==
    CASE answer = "ok" -> [code |-> 200, status |-> "success"]
      [] answer = "status" -> [code |-> 502, status |-> "error"]
      [] OTHER -> [code |-> 500, status |-> "error"]

(* generate_sql from the answer of the backend to its return (lines 89-160)  *)
(* for the request `me`.  log_unified is called once (line 92, 116 or 142).  *)
(* An exception leaving that call at 92 or 116 is inside the try and lands   *)
(* in `except Exception` (139), which calls log_unified again (`again` is    *)
(* what the store does with that write) and raises 500; one leaving the call *)
(* at 142 leaves the handler, which the framework answers with 500.          *)
answer_of_core(s, me, answer, stored, again) ==
    LET out == AfterForward(answer)
        log == log_unified(s, me.tok.id, me.tok.role, out.status,
                           me.tenant_id, me.database_name, stored)
        retry == log_unified(log.db, me.tok.id, me.tok.role, "error",
                             me.tenant_id, me.database_name, again)
        Rows(l) == IF l.made = 0 THEN {} ELSE {l.made}
    IN  IF ~log.raised
        THEN [code |-> out.code, link |-> IF out.code = 200 THEN me.link ELSE <<>>,
              rows |-> Rows(log), db |-> log.db]
        ELSE IF answer \in {"ok", "status"}
        THEN [code |-> 500, link |-> <<>>,
              rows |-> Rows(log) \cup Rows(retry), db |-> retry.db]
        ELSE [code |-> 500, link |-> <<>>, rows |-> Rows(log), db |-> log.db]

-----------------------------------------------------------------------------
(* routes/auth.py.  login (with the right password) marks the user active    *)
(* and signs a token carrying the id and the role stored at that moment;     *)
(* logout, reached through core/dependencies.py get_current_user, reads the  *)
(* id of the token and does not look at is_active.                           *)

UserNamed(s, username) == {u \in Ids(s.users) : s.users[u].username = username}

login(s, username, now) ==
    LET id == CHOOSE u \in UserNamed(s, username) : TRUE
    IN  IF UserNamed(s, username) = {} THEN Raise(400, "bad_credentials", s)
        ELSE Reply(200, "", id, [s EXCEPT !.users[id].last_login = now,
                                          !.users[id].is_active = TRUE])

logout(s, tok) ==
    IF tok.id \notin Ids(s.users) THEN Raise(404, "user_not_found", s)
    ELSE Reply(200, "", 0, [s EXCEPT !.users[tok.id].is_active = FALSE])

-----------------------------------------------------------------------------
(* The system.  Every step is one whole request: the handler runs against    *)
(* the store and its reply is kept in `last`.                                *)

OrgIds == 1..MaxOrgs
ClientIds == 1..MaxClients
UserIds == 1..MaxUsers
DatabaseIds == 1..MaxDatabases
AccessIds == 1..MaxAccesses

NoRow == [i \in {} |-> 0]

(* The store after bootstrap: the default organization (id 1) and the super  *)
(* admin written by scripts/create_super_admin.py.                           *)
Bootstrap ==
    [organizations |-> (1 :> [name |-> "acme", is_root |-> TRUE]),
     clients |-> NoRow,
     users |-> (1 :> [username |-> "root", role |-> "super_admin",
                      client_id |-> NULL, organization_id |-> 1,
                      is_active |-> TRUE, last_login |-> NULL]),
     client_databases |-> NoRow,
     user_database_access |-> NoRow,
     tenant_registry |-> NoRow,
     audit_log |-> NoRow,
     access_audit |-> NoRow,
     chats |-> NoRow,
     messages |-> NoRow,
     user_permissions |-> NoRow,
     message_ratings |-> NoRow,
     next |-> [organizations |-> 2, clients |-> 1, users |-> 2,
               client_databases |-> 1, user_database_access |-> 1,
               tenant_registry |-> 1, audit_log |-> 1, access_audit |-> 1]]

(* The store once the super admin has created a second organization, two     *)
(* clients (the second one in organization `org2`) and an admin of the       *)
(* first client.                                                             *)
Hierarchy(org2) ==
    [Bootstrap EXCEPT
        !.organizations = @ @@ (2 :> [name |-> "beta", is_root |-> FALSE]),
        !.clients = (1 :> [name |-> "north", organization_id |-> 2])
                    @@ (2 :> [name |-> "south", organization_id |-> org2]),
        !.users = @ @@ (2 :> [username |-> "ann", role |-> "admin", client_id |-> 1,
                              organization_id |-> 2, is_active |-> TRUE,
                              last_login |-> NULL]),
        !.next = [@ EXCEPT !.organizations = 3, !.clients = 3, !.users = 3]]

Token(id, role) == [id |-> id, role |-> role]

Idle == [op |-> "", by |-> 0, code |-> 0, detail |-> "", items |-> <<>>]

(* The username a new user is given: one per id, so that it is fresh.        *)
NameOf(id) == IF id = 1 THEN "root" ELSE IF id = 2 THEN "ann" ELSE IF id = 3 THEN "bob"
              ELSE "eve"

Init ==
    /\ db = Hierarchy(2)
    /\ tokens = {Token(1, "super_admin"), Token(2, "admin")}
    /\ last = Idle
    /\ race = <<>>

(* The request `op` sent with token `tok` got reply `r`.                      *)
Done(op, tok, r) ==
    /\ db' = r.db
    /\ last' = [op |-> op, by |-> tok.id, code |-> r.code, detail |-> r.detail,
                items |-> r.items]
    /\ UNCHANGED <<tokens, race>>

-----------------------------------------------------------------------------
(* Spec: users, databases and grants below a fixed hierarchy (two clients of *)
(* a non-root organization).  The callers are the super admin and the admin  *)
(* of client 1; update_user keeps the role of its target here.               *)

CreateUser ==
    \E tok \in tokens, role \in Roles, client_id \in {NULL} \cup ClientIds :
        /\ db.next.users <= MaxUsers
        /\ Done("create_user", tok,
                create_user(db, tok, NameOf(db.next.users), role, TRUE, client_id, NULL))

UpdateUser ==
    \E tok \in tokens, user_id \in Ids(db.users) \ {1},
       client_id \in {NULL} \cup ClientIds :
        Done("update_user", tok,
             update_user(db, tok, user_id, db.users[user_id].username,
                         db.users[user_id].role, TRUE, client_id))

DeleteUser ==
    \E tok \in tokens, user_id \in UserIds :
        Done("delete_user", tok, delete_user(db, tok, user_id))

CreateDatabase ==
    \E tok \in tokens, client_id \in ClientIds :
        /\ db.next.client_databases <= MaxDatabases
        /\ Done("create_database", tok, create_database(db, tok, "sales", client_id))

UpdateDatabase ==
    \E tok \in tokens, database_id \in DatabaseIds, client_id \in ClientIds :
        Done("update_database", tok,
             update_database(db, tok, database_id, "sales", client_id))

DeleteDatabase ==
    \E tok \in tokens, database_id \in DatabaseIds :
        Done("delete_database", tok, delete_database(db, tok, database_id))

CreateDatabaseAccess ==
    \E tok \in tokens, user_id \in UserIds, database_id \in DatabaseIds :
        /\ db.next.user_database_access <= MaxAccesses
        /\ Done("create_database_access", tok,
                create_database_access(db, tok, user_id, database_id, TRUE, FALSE))

(* The lists of a bulk request: two databases, in either order or twice the  *)
(* same one.                                                                 *)
BulkLists == {<<1, 2>>, <<2, 1>>, <<1, 1>>}

CreateBulkDatabaseAccess ==
    \E tok \in tokens, user_id \in UserIds, database_ids \in BulkLists :
        /\ db.next.user_database_access + 1 <= MaxAccesses
        /\ Done("create_bulk_database_access", tok,
                create_bulk_database_access(db, tok, user_id, database_ids, TRUE, FALSE))

UpdateDatabaseAccess ==
    \E tok \in tokens, access_id \in AccessIds :
        Done("update_database_access", tok,
             update_database_access(db, tok, access_id, TRUE, FALSE))

DeleteDatabaseAccess ==
    \E tok \in tokens, access_id \in AccessIds :
        Done("delete_database_access", tok, delete_database_access(db, tok, access_id))

RevokeAllUserDatabaseAccess ==
    \E tok \in tokens, user_id \in UserIds :
        Done("revoke_all_user_database_access", tok,
             revoke_all_user_database_access(db, tok, user_id))

Next ==
    \/ CreateUser \/ UpdateUser \/ DeleteUser
    \/ CreateDatabase \/ UpdateDatabase \/ DeleteDatabase
    \/ CreateDatabaseAccess \/ CreateBulkDatabaseAccess
    \/ UpdateDatabaseAccess \/ DeleteDatabaseAccess \/ RevokeAllUserDatabaseAccess

Spec == Init /\ [][Next]_vars

-----------------------------------------------------------------------------
(* SpecOrg: the top of the hierarchy.  The super admin creates, updates and  *)
(* deletes organizations and clients, and creates and deletes the users of   *)
(* the clients; the users it created log in and send the same requests.      *)

InitOrg ==
    /\ \E is_root \in BOOLEAN :
           db = [Bootstrap EXCEPT !.organizations[1].is_root = is_root]
    /\ tokens = {Token(1, "super_admin")}
    /\ last = Idle
    /\ race = <<>>

CreateOrganization ==
    \E tok \in tokens, name \in OrgNames, is_root \in BOOLEAN :
        /\ db.next.organizations <= MaxOrgs
        /\ Done("create_organization", tok, create_organization(db, tok, name, is_root))

UpdateOrganization ==
    \E tok \in tokens, org_id \in OrgIds, name \in OrgNames, is_root \in BOOLEAN :
        Done("update_organization", tok,
             update_organization(db, tok, org_id, name, is_root))

DeleteOrganization ==
    \E tok \in tokens, org_id \in OrgIds :
        Done("delete_organization", tok, delete_organization(db, tok, org_id))

CreateClient ==
    \E tok \in tokens, name \in ClientNames, organization_id \in OrgIds :
        /\ db.next.clients <= MaxClients
        /\ Done("create_client", tok, create_client(db, tok, name, organization_id))

UpdateClient ==
    \E tok \in tokens, client_id \in Ids(db.clients), organization_id \in OrgIds :
        Done("update_client", tok,
             update_client(db, tok, client_id, db.clients[client_id].name,
                           organization_id))

DeleteClient ==
    \E tok \in tokens, client_id \in ClientIds :
        Done("delete_client", tok, delete_client(db, tok, client_id))

OrgCreateUser ==
    \E tok \in tokens, role \in {"admin"}, client_id \in {NULL} \cup ClientIds :
        /\ db.next.users <= MaxOrgUsers
        /\ Done("create_user", tok,
                create_user(db, tok, NameOf(db.next.users), role, TRUE, client_id, NULL))

Login ==
    \E username \in {NameOf(u) : u \in UserIds} :
        LET r == login(db, username, LoginTime)
        IN  /\ db' = r.db
            /\ tokens' = IF r.code = 200
                         THEN tokens \cup {Token(r.made, db.users[r.made].role)}
                         ELSE tokens
            /\ last' = [op |-> "login", by |-> r.made, code |-> r.code,
                        detail |-> r.detail, items |-> <<>>]
            /\ UNCHANGED race

NextOrg ==
    \/ CreateOrganization \/ UpdateOrganization \/ DeleteOrganization
    \/ CreateClient \/ UpdateClient \/ DeleteClient
    \/ OrgCreateUser \/ DeleteUser \/ Login

SpecOrg == InitOrg /\ [][NextOrg]_vars

-----------------------------------------------------------------------------
(* SpecRace: two requests to create_database_access served at the same time, *)
(* each in its own session.  A request first runs its checks and the query   *)
(* for an existing row (lines 1249-1283), then adds its row and commits      *)
(* (lines 1285-1296); the other request may run between the two.  The table  *)
(* user_database_access has no unique constraint, so the commit of a second  *)
(* row for the same pair goes through.                                       *)

Procs == {1, 2}

(* The store the two requests meet: the hierarchy, a user of the first       *)
(* client, and one database in each client.                                  *)
Populated ==
    [Hierarchy(2) EXCEPT
        !.users = @ @@ (3 :> [username |-> "bob", role |-> "user", client_id |-> 1,
                              organization_id |-> 2, is_active |-> TRUE,
                              last_login |-> NULL]),
        !.client_databases = (1 :> [name |-> "sales", client_id |-> 1])
                             @@ (2 :> [name |-> "stock", client_id |-> 2]),
        !.next = [@ EXCEPT !.users = 4, !.client_databases = 3]]

Requests ==
    [tok : {Token(1, "super_admin"), Token(2, "admin")}, user_id : {2, 3},
     database_id : DatabaseIds, pc : {"begin"}, code : {0}, detail : {""}]

InitRace ==
    /\ db = Populated
    /\ tokens = {Token(1, "super_admin"), Token(2, "admin")}
    /\ last = Idle
    /\ race \in [Procs -> Requests]

(* Lines 1249-1283: the request is answered at once when a check fails or a  *)
(* row for the pair is found, and goes on to the insert otherwise.           *)
CheckExisting(p) ==
    LET me == race[p]
        r == create_database_access(db, me.tok, me.user_id, me.database_id, TRUE, FALSE)
    IN  /\ me.pc = "begin"
        /\ race' = [race EXCEPT ![p] =
                       IF r.code = 200 THEN [me EXCEPT !.pc = "checked"]
                       ELSE [me EXCEPT !.pc = "done", !.code = r.code,
                                       !.detail = r.detail]]
        /\ UNCHANGED <<db, tokens, last>>

(* Lines 1285-1296: db.add, db.commit, and the 200 reply.                     *)
AddAndCommit(p) ==
    LET me == race[p]
    IN  /\ me.pc = "checked"
        /\ db' = NewGrant(db, me.user_id, me.database_id, TRUE, FALSE)
        /\ race' = [race EXCEPT ![p] = [me EXCEPT !.pc = "done", !.code = 200]]
        /\ UNCHANGED <<tokens, last>>

NextRace == \E p \in Procs : CheckExisting(p) \/ AddAndCommit(p)

SpecRace == InitRace /\ [][NextRace]_vars

-----------------------------------------------------------------------------
(* SpecRole: the roles of the users.  The holders of a super_admin token     *)
(* promote and demote the users of the populated store, and the users log in *)
(* and receive a token with the role stored at that moment.                  *)

InitRole ==
    /\ db = Populated
    /\ tokens = {Token(1, "super_admin"), Token(2, "admin")}
    /\ last = Idle
    /\ race = <<>>

PromoteToSuperAdmin ==
    \E tok \in tokens, user_id \in UserIds :
        Done("promote_to_super_admin", tok, promote_to_super_admin(db, tok, user_id))

DemoteFromSuperAdmin ==
    \E tok \in tokens, user_id \in UserIds :
        Done("demote_from_super_admin", tok, demote_from_super_admin(db, tok, user_id))

NextRole == PromoteToSuperAdmin \/ DemoteFromSuperAdmin \/ Login

SpecRole == InitRole /\ [][NextRole]_vars

-----------------------------------------------------------------------------
(* SpecProxy: one request to generate_sql, step by step, while grants are    *)
(* given and revoked.  The handler is a coroutine whose queries run on the   *)
(* session one after the other and which waits for the backend, so the       *)
(* requests served by other threads fall between its steps.                  *)

(* Two clients with a database of the same name each, a user of the first    *)
(* client, an active registry row for the second client and, for the first   *)
(* client, the registry row `north`: "none", "inactive" or "active".         *)
ProxyStore(north) ==
    [Populated EXCEPT
        !.client_databases = (1 :> [name |-> "sales", client_id |-> 1])
                             @@ (2 :> [name |-> "sales", client_id |-> 2]),
        !.tenant_registry =
            (1 :> [client_id |-> 2, core_url |-> "core-south", is_active |-> TRUE])
            @@ IF north = "none" THEN NoRow
               ELSE (2 :> [client_id |-> 1, core_url |-> "core-north",
                           is_active |-> north = "active"]),
        !.next = [@ EXCEPT !.tenant_registry = 3]]

TenantIds ==
    {Chars("north"), <<"N", "o", "r", "t", "h">>, Chars("south"), Chars("west"),
     <<"%">>}

Dispatcher == 1

Dispatches ==
    [tok : {Token(1, "super_admin"), Token(3, "user")}, tenant_id : TenantIds,
     database_name : DbNames, pc : {"begin"}, code : {0}, answer : {""},
     stored : {FALSE}, core_url : {""}, link : {<<>>}, trail : {<<>>},
     rows : {{}}]

InitProxy ==
    /\ \E north \in {"none", "inactive", "active"} : db = ProxyStore(north)
    /\ tokens = {Token(1, "super_admin"), Token(3, "user")}
    /\ last = Idle
    /\ race \in [{Dispatcher} -> Dispatches]

Step(me) == /\ race' = [race EXCEPT ![Dispatcher] = me]
            /\ UNCHANGED <<tokens, last>>

(* Line 64: check_database_access.  Its HTTPException leaves the handler     *)
(* through `except HTTPException: raise` (lines 136-137).                    *)
CheckAccess ==
    LET me == race[Dispatcher]
        named == DatabasesNamed(db, me.database_name)
    IN  /\ me.pc = "begin"
        /\ \E pick \in IF named = {} THEN {NULL} ELSE named :
               LET code == check_database_access(db, me.tok, me.database_name, pick)
               IN  Step([me EXCEPT !.pc = IF code = 200 THEN "resolve" ELSE "done",
                                   !.code = IF code = 200 THEN 0 ELSE code,
                                   !.trail = Append(@, "check")])
        /\ UNCHANGED db

(* Lines 66-69: CoreResolver.get_core_url and the link.                      *)
Resolve ==
    LET me == race[Dispatcher]
        like == ClientsLike(db, me.tenant_id)
    IN  /\ me.pc = "resolve"
        /\ \E client \in IF like = {} THEN {NULL} ELSE like :
               LET active == ActiveRegistry(db, client)
               IN  \E registry \in IF active = {} THEN {NULL} ELSE active :
                       LET r == get_core_url(db, me.tenant_id, client, registry)
                       IN  Step([me EXCEPT
                                    !.pc = IF r.code = 200 THEN "forward" ELSE "done",
                                    !.code = IF r.code = 200 THEN 0 ELSE r.code,
                                    !.core_url = r.core_url,
                                    !.link = IF r.code = 200
                                             THEN client_link(me.tenant_id, me.database_name)
                                             ELSE <<>>,
                                    !.trail = Append(@, "resolve")])
        /\ UNCHANGED db

(* Lines 78-87: the request leaves for core_url + client_link + "/".         *)
Forward ==
    LET me == race[Dispatcher]
    IN  /\ me.pc = "forward"
        /\ Step([me EXCEPT !.pc = "sent", !.trail = Append(@, "forward")])
        /\ UNCHANGED db

(* Lines 89-160: the answer of the backend (or the exception of the client)  *)
(* is handled, one call to log_unified is made and the handler returns or    *)
(* raises.                                                                   *)
Respond ==
    LET me == race[Dispatcher]
    IN  /\ me.pc = "sent"
        /\ \E answer \in BackendAnswers, stored \in BOOLEAN, again \in BOOLEAN :
               LET r == answer_of_core(db, me, answer, stored, again)
               IN  /\ db' = r.db
                   /\ Step([me EXCEPT !.pc = "done", !.code = r.code,
                                      !.answer = answer, !.stored = stored,
                                      !.link = r.link,
                                      !.rows = @ \cup r.rows,
                                      !.trail = Append(@, "audit")])

GrantAccess ==
    \E tok \in tokens, user_id \in UserIds, database_id \in DatabaseIds,
       can_read \in BOOLEAN :
        /\ db.next.user_database_access <= MaxAccesses
        /\ Done("create_database_access", tok,
                create_database_access(db, tok, user_id, database_id, can_read, FALSE))

NextProxy ==
    \/ CheckAccess \/ Resolve \/ Forward \/ Respond
    \/ GrantAccess \/ DeleteDatabaseAccess

SpecProxy == InitProxy /\ [][NextProxy]_vars

-----------------------------------------------------------------------------
(* SpecAudit: calls of log_access, one after the other, while time passes.   *)
(* `race` holds the clock and the latest call with what it returned.         *)

Actors ==
    {[user |-> NULL, token |-> NoToken], [user |-> 1, token |-> NoToken],
     [user |-> NULL, token |-> "secret"]}

NoCall == [at |-> 0, actor |-> [user |-> NULL, token |-> NoToken], target_id |-> NULL,
           dedupe_seconds |-> 0, looked |-> FALSE, stored |-> FALSE, id |-> NULL,
           calls |-> 0]

InitAudit ==
    /\ db = Bootstrap
    /\ tokens = {}
    /\ last = Idle
    /\ race = [now |-> 0, call |-> NoCall]

Tick ==
    /\ race.now < MaxTicks
    /\ race' = [race EXCEPT !.now = @ + 1]
    /\ UNCHANGED <<db, tokens, last>>

(* One call.  `looked` false is a dedup query that raised (lines 117-119).   *)
LogAccess ==
    \E actor \in Actors, target_id \in {NULL, 7}, dedupe_seconds \in {0, 1},
       looked \in BOOLEAN, stored \in BOOLEAN :
        LET token == actor.token
            recent == Latest(db, Recent(db, race.now, actor.user, token, "view",
                                        "user", target_id, dedupe_seconds))
        IN  /\ db.next.access_audit <= MaxAuditRows
            /\ \E existing \in IF looked /\ recent # {} THEN recent ELSE {NULL} :
                   LET r == log_access(db, race.now, actor.user, token, "view",
                                       "user", target_id, dedupe_seconds,
                                       existing, stored)
                   IN  /\ db' = r.db
                       /\ race' = [race EXCEPT !.call =
                                      [at |-> race.now, actor |-> actor,
                                       target_id |-> target_id,
                                       dedupe_seconds |-> dedupe_seconds,
                                       looked |-> looked, stored |-> stored,
                                       id |-> r.id, calls |-> 1]]
            /\ UNCHANGED <<tokens, last>>

NextAudit == Tick \/ LogAccess

SpecAudit == InitAudit /\ [][NextAudit]_vars

-----------------------------------------------------------------------------
(* SpecResolve: calls of CoreResolver.get_core_url, one after the other,     *)
(* while clients are renamed and registry rows are switched on and off.      *)
(* `race` holds the latest call, what it returned, whether the store has     *)
(* stayed the same since (`fresh`) and whether the call repeated the tenant  *)
(* id of the call before it with no change in between (`repeated`).          *)

NoResolve == [tenant_id |-> <<>>, code |-> 0, core_url |-> "", fresh |-> FALSE,
              repeated |-> FALSE]

InitResolve ==
    /\ \E north \in {"none", "inactive", "active"} : db = ProxyStore(north)
    /\ tokens = {Token(1, "super_admin")}
    /\ last = Idle
    /\ race = NoResolve

GetCoreUrl ==
    \E tenant_id \in TenantIds :
        LET like == ClientsLike(db, tenant_id)
        IN  \E client \in IF like = {} THEN {NULL} ELSE like :
                LET active == ActiveRegistry(db, client)
                IN  \E registry \in IF active = {} THEN {NULL} ELSE active :
                        LET r == get_core_url(db, tenant_id, client, registry)
                        IN  /\ race' = [tenant_id |-> tenant_id, code |-> r.code,
                                        core_url |-> r.core_url, fresh |-> TRUE,
                                        repeated |-> race.fresh /\ race.tenant_id = tenant_id]
                            /\ UNCHANGED <<db, tokens, last>>

(* An operator of the deployment switches a registry row on or off.          *)
SetRegistryActive ==
    \E r \in Ids(db.tenant_registry), is_active \in BOOLEAN :
        /\ db.tenant_registry[r].is_active # is_active
        /\ db' = [db EXCEPT !.tenant_registry[r].is_active = is_active]
        /\ race' = [race EXCEPT !.fresh = FALSE]
        /\ UNCHANGED <<tokens, last>>

RenameClient ==
    \E tok \in tokens, client_id \in ClientIds, name \in {"north", "south", "west"} :
        LET r == update_client(db, tok, client_id, name, db.clients[client_id].organization_id)
        IN  /\ db' = r.db
            /\ last' = [op |-> "update_client", by |-> tok.id, code |-> r.code,
                        detail |-> r.detail, items |-> r.items]
            /\ race' = [race EXCEPT !.fresh = @ /\ r.db = db]
            /\ UNCHANGED tokens

NextResolve == GetCoreUrl \/ SetRegistryActive \/ RenameClient

SpecResolve == InitResolve /\ [][NextResolve]_vars

-----------------------------------------------------------------------------
(* SpecCascade: users are deleted while they own chats, messages, a          *)
(* permission row, ratings and grants.  bob owns chat 1 with message 1 and   *)
(* permission row 1; ann's chat 2 with message 2 and a rating written by bob *)
(* are there or not.                                                         *)

CascadeStore(ann_chats, bob_rated) ==
    [Populated EXCEPT
        !.chats = (1 :> [user_id |-> 3])
                  @@ IF ann_chats THEN (2 :> [user_id |-> 2]) ELSE NoRow,
        !.messages = (1 :> [chat_id |-> 1])
                     @@ IF ann_chats THEN (2 :> [chat_id |-> 2]) ELSE NoRow,
        !.user_permissions = (1 :> [user_id |-> 3]),
        !.message_ratings = IF bob_rated THEN (1 :> [user_id |-> 3]) ELSE NoRow]

InitCascade ==
    /\ \E ann_chats \in BOOLEAN, bob_rated \in BOOLEAN :
           db = CascadeStore(ann_chats, bob_rated)
    /\ tokens = {Token(1, "super_admin"), Token(2, "admin")}
    /\ last = Idle
    /\ race = <<>>

NextCascade ==
    \/ DeleteUser \/ CreateDatabaseAccess \/ DeleteDatabaseAccess
    \/ RevokeAllUserDatabaseAccess

SpecCascade == InitCascade /\ [][NextCascade]_vars

-----------------------------------------------------------------------------
(* SpecAtomic: requests that fail.  The users and the databases of Spec are  *)
(* created, updated and deleted; update_user and update_database are sent    *)
(* with every field changed and with the id of a client that does not exist  *)
(* among the client ids.                                                     *)

SendUpdateUser ==
    \E tok \in tokens, user_id \in UserIds, username \in {"ann", "eve"},
       role \in {"admin", "user"}, is_active \in BOOLEAN,
       client_id \in {NULL} \cup ClientIds \cup {MaxClients + 1} :
        Done("update_user", tok,
             update_user(db, tok, user_id, username, role, is_active, client_id))

SendUpdateDatabase ==
    \E tok \in tokens, database_id \in DatabaseIds, name \in DbNames,
       client_id \in ClientIds \cup {MaxClients + 1} :
        Done("update_database", tok,
             update_database(db, tok, database_id, name, client_id))

NextAtomic ==
    \/ SendUpdateUser \/ SendUpdateDatabase
    \/ DeleteUser \/ CreateDatabase \/ DeleteDatabase

SpecAtomic == Init /\ [][NextAtomic]_vars

-----------------------------------------------------------------------------
(* SpecSweep: the sweep of list_users, run by two requests at a time.  Each  *)
(* request reads the outdated users (lines 390-394) and later assigns and    *)
(* commits (lines 395-400); the clock advances in between.  The users start  *)
(* with every is_active and with a last_login of never, 1 or 2.              *)

MaxSweeps == 3

SweepStore(ann_active, ann_login, bob_active, bob_login) ==
    [Populated EXCEPT !.users[1].last_login = 1,
                      !.users[2].is_active = ann_active,
                      !.users[2].last_login = ann_login,
                      !.users[3].is_active = bob_active,
                      !.users[3].last_login = bob_login]

InitSweep ==
    /\ \E ann_active \in BOOLEAN, bob_active \in BOOLEAN,
          ann_login \in {NULL, 1, 2}, bob_login \in {NULL, 1, 2} :
           /\ db = SweepStore(ann_active, ann_login, bob_active, bob_login)
           /\ race = [now |-> 1, start |-> db, done |-> 0, sweeps |-> 0,
                      overlapped |-> FALSE,
                      pc |-> [p \in Procs |-> "idle"],
                      at |-> [p \in Procs |-> 0],
                      outdated |-> [p \in Procs |-> {}]]
    /\ tokens = {Token(1, "super_admin"), Token(2, "admin")}
    /\ last = Idle

SweepTick ==
    /\ race.now < MaxClock
    /\ race' = [race EXCEPT !.now = @ + 1]
    /\ UNCHANGED <<db, tokens, last>>

ReadOutdated(p) ==
    \E tok \in tokens :
        /\ race.pc[p] = "idle"
        /\ race.sweeps + Cardinality({q \in Procs : race.pc[q] = "read"}) < MaxSweeps
        /\ require_role(db, tok, {"admin", "super_admin"}) = ""
        /\ race' = [race EXCEPT !.pc[p] = "read", !.at[p] = race.now,
                                !.outdated[p] = Outdated(db, race.now),
                                !.overlapped = @ \/ \E q \in Procs : race.pc[q] = "read"]
        /\ UNCHANGED <<db, tokens, last>>

CommitSweep(p) ==
    /\ race.pc[p] = "read"
    /\ db' = Deactivate(db, race.outdated[p])
    /\ race' = [race EXCEPT !.pc[p] = "idle", !.sweeps = @ + 1,
                            !.done = IF race.at[p] > @ THEN race.at[p] ELSE @]
    /\ last' = [Idle EXCEPT !.op = "list_users", !.code = 200]
    /\ UNCHANGED tokens

NextSweep == SweepTick \/ \E p \in Procs : ReadOutdated(p) \/ CommitSweep(p)

SpecSweep == InitSweep /\ [][NextSweep]_vars

-----------------------------------------------------------------------------
(* SpecSession: logins, logouts and listings under a clock.  Root, ann       *)
(* (admin of client 1) and bob (admin of client 2, or of no client) logged   *)
(* in at time 1 and hold their tokens; each of ann and bob has a grant on    *)
(* the database of its client.  `race` holds the clock, the users whose      *)
(* is_active was turned off by a logout or a sweep and who have not logged   *)
(* in since, the time of the latest login and the filters of the latest      *)
(* list_database_access.                                                     *)

SessionStore(bob_client) ==
    [Populated EXCEPT
        !.users = [u \in Ids(@) |-> [@[u] EXCEPT !.last_login = 1]],
        !.users[3].role = "admin",
        !.users[3].client_id = bob_client,
        !.user_database_access =
            (1 :> [user_id |-> 2, database_id |-> 1, can_read |-> TRUE, can_write |-> FALSE])
            @@ (2 :> [user_id |-> 3, database_id |-> 2, can_read |-> TRUE,
                      can_write |-> FALSE]),
        !.next = [@ EXCEPT !.user_database_access = 3]]

NoFilter == [user_id |-> NULL, database_id |-> NULL]

InitSession ==
    /\ \E bob_client \in {NULL, 2} : db = SessionStore(bob_client)
    /\ tokens = {Token(1, "super_admin"), Token(2, "admin"), Token(3, "admin")}
    /\ last = Idle
    /\ race = [now |-> 1, out |-> {}, stamp |-> 1, asked |-> NoFilter]

(* The users whose is_active the reply `r` turned off.                       *)
TurnedOff(r) ==
    {u \in Ids(db.users) : db.users[u].is_active /\ ~r.db.users[u].is_active}

(* The request `op` sent with token `tok` got reply `r`; what becomes of     *)
(* `race` is said by the action.                                             *)
Answered(op, tok, r) ==
    /\ db' = r.db
    /\ last' = [op |-> op, by |-> tok.id, code |-> r.code, detail |-> r.detail,
                items |-> r.items]
    /\ UNCHANGED tokens

SessionTick ==
    /\ race.now < MaxClock
    /\ race' = [race EXCEPT !.now = @ + 1]
    /\ UNCHANGED <<db, tokens, last>>

SessionLogin ==
    \E username \in {NameOf(u) : u \in UserIds} :
        LET r == login(db, username, race.now)
        IN  /\ db' = r.db
            /\ tokens' = tokens \cup {Token(r.made, db.users[r.made].role)}
            /\ last' = [op |-> "login", by |-> r.made, code |-> r.code,
                        detail |-> r.detail, items |-> <<>>]
            /\ race' = [race EXCEPT !.out = @ \ {r.made}, !.stamp = race.now]

Logout ==
    \E tok \in tokens :
        LET r == logout(db, tok)
        IN  /\ Answered("logout", tok, r)
            /\ race' = [race EXCEPT !.out = IF r.code = 200 THEN @ \cup {tok.id} ELSE @]

ListUsers ==
    \E tok \in tokens :
        LET r == list_users(db, tok, race.now)
        IN  /\ Answered("list_users", tok, r)
            /\ race' = [race EXCEPT !.out = @ \cup TurnedOff(r)]

ListDatabases ==
    \E tok \in tokens :
        /\ Answered("list_databases", tok, list_databases(db, tok))
        /\ UNCHANGED race

ListClients ==
    \E tok \in tokens :
        /\ Answered("list_clients", tok, list_clients(db, tok))
        /\ UNCHANGED race

ListDatabaseAccess ==
    \E tok \in tokens, user_id \in {NULL, 2}, database_id \in {NULL} :
        /\ Answered("list_database_access", tok,
                  list_database_access(db, tok, user_id, database_id))
        /\ race' = [race EXCEPT !.asked = [user_id |-> user_id,
                                           database_id |-> database_id]]

(* An update_user that changes nothing: the request body carries the stored  *)
(* username and role and leaves is_active to its default, True.              *)
ResendUser ==
    \E tok \in tokens, user_id \in Ids(db.users) :
        LET r == update_user(db, tok, user_id, db.users[user_id].username,
                             db.users[user_id].role, TRUE, NULL)
        IN  /\ Answered("update_user", tok, r)
            /\ UNCHANGED race

NextSession ==
    \/ SessionTick \/ SessionLogin \/ Logout
    \/ ListUsers \/ ListDatabases \/ ListClients \/ ListDatabaseAccess
    \/ ResendUser

SpecSession == InitSession /\ [][NextSession]_vars

-----------------------------------------------------------------------------
(* Requests the properties range over: every token issued so far, with the   *)
(* stored row of its user, and every value of the request fields.            *)

ClientInputs == {NULL} \cup ClientIds

(* The tokens whose user is stored with role `role`.                         *)
Callers(role) == {tok \in tokens : tok.id \in Ids(db.users) /\ db.users[tok.id].role = role}

(* The tokens that pass require_role("admin", "super_admin").                *)
Admitted == {tok \in tokens : require_role(db, tok, {"admin", "super_admin"}) = ""}

Refused(r) == r.code = 403 /\ r.db = db

(* Every row of `table` that reply `r` created, changed or deleted.          *)
Touched(r, table) ==
    {i \in Ids(db[table]) \cup Ids(r.db[table]) :
        \/ i \notin Ids(db[table])
        \/ i \notin Ids(r.db[table])
        \/ db[table][i] # r.db[table][i]}

Ok(r) == r.code \in {200, 201}

(* The clients a grant row reaches, through its user and its database.       *)
GrantClients(s, a) ==
    {s.users[s.user_database_access[a].user_id].client_id,
     s.client_databases[s.user_database_access[a].database_id].client_id}

(* For one reply `r` to an admin of client `c`: the user and database rows   *)
(* it created, changed or deleted are rows of client c before and after, and *)
(* so are the user and the database of every grant it created.               *)
WithinClient(r, c) ==
    /\ \A u \in Touched(r, "users") :
           /\ u \in Ids(db.users) => db.users[u].client_id = c
           /\ u \in Ids(r.db.users) => r.db.users[u].client_id = c
    /\ \A d \in Touched(r, "client_databases") :
           /\ d \in Ids(db.client_databases) => db.client_databases[d].client_id = c
           /\ d \in Ids(r.db.client_databases) => r.db.client_databases[d].client_id = c
    /\ \A a \in Ids(r.db.user_database_access) \ Ids(db.user_database_access) :
           GrantClients(r.db, a) = {c}

C2_ForeignClientRefused ==
    \A tok \in Callers("admin") \cap Admitted :
        \A cid \in ClientIds \ {db.users[tok.id].client_id} :
            LET r == create_database(db, tok, "stock", cid)
            IN  r.code = 403 /\ r.db.client_databases = db.client_databases

Mixed(u, d) ==
    /\ u \in Ids(db.users) /\ d \in Ids(db.client_databases)
    /\ db.users[u].client_id # db.client_databases[d].client_id

(* C3 as stated: for every caller that passes the role gate, a grant request *)
(* for a user and a database of different clients, single or bulk, is        *)
(* answered 400 (InvalidState) and creates no grant row.                     *)
C3_AlwaysInvalidState ==
    \A tok \in Admitted : \A u \in UserIds, d \in DatabaseIds :
        Mixed(u, d) =>
            LET r == create_database_access(db, tok, u, d, TRUE, FALSE)
                b == create_bulk_database_access(db, tok, u, <<d>>, TRUE, FALSE)
            IN  /\ r.code = 400 /\ r.db = db
                /\ b.code = 400 /\ b.db = db

(* C3: a grant request for a user and a database of different clients never *)
(* creates a grant row, whoever sends it.  The single request is answered    *)
(* 400 "different clients" when the caller is stored as super_admin and 403  *)
(* for every other caller; the bulk request is answered 403, or 200 with     *)
(* that database reported as an error.                                       *)
C3_MixedClientsNoGrant ==
    \A tok \in tokens : \A u \in UserIds, d \in DatabaseIds :
        Mixed(u, d) =>
            LET r == create_database_access(db, tok, u, d, TRUE, FALSE)
                super == tok \in Admitted /\ db.users[tok.id].role = "super_admin"
            IN  /\ r.db = db
                /\ IF super THEN r.code = 400 /\ r.detail = "different_clients"
                   ELSE r.code = 403
                /\ \A ids \in BulkLists :
                       LET b == create_bulk_database_access(db, tok, u, ids, TRUE, FALSE)
                       IN  /\ GrantsOf(b.db, u, d) = GrantsOf(db, u, d)
                           /\ b.code \in {200, 403}
                           /\ b.code = 403 => b.db = db
                           /\ b.code = 200 =>
                                  \A i \in DOMAIN ids :
                                      ids[i] = d => b.items[i] \in
                                          {"different_clients", "other_client_database"}

(* C3 witness: a bulk request reported a database of another client than the *)
(* user's as an error, and the single request for such a pair is answered    *)
(* 400 "different clients".                                                  *)
C3_Witness ==
    /\ last.op = "create_bulk_database_access" /\ last.code = 200
    /\ \E i \in DOMAIN last.items : last.items[i] = "different_clients"
    /\ \E u \in UserIds, d \in DatabaseIds : Mixed(u, d)
    /\ \E tok \in tokens, u \in UserIds, d \in DatabaseIds :
           create_database_access(db, tok, u, d, TRUE, FALSE).detail = "different_clients"

(* C4: every grant row references a user and a database of the same client.  *)
C4_GrantsWithinOneClient ==
    \A a \in Ids(db.user_database_access) :
        LET access == db.user_database_access[a]
        IN  /\ access.user_id \in Ids(db.users)
            /\ access.database_id \in Ids(db.client_databases)
            /\ db.users[access.user_id].client_id =
                   db.client_databases[access.database_id].client_id

SuperAdmins(s) == {u \in Ids(s.users) : s.users[u].role = "super_admin"}

(* C10: no request sent by a principal stored as admin gives any user the    *)
(* role super_admin: after every step taken for such a caller (create_user   *)
(* and update_user with role super_admin among them) the users that have the *)
(* role are users that had it before.                                        *)
C10_AdminNeverMakesSuperAdmin ==
    [][(last'.by \in Ids(db.users) /\ db.users[last'.by].role = "admin")
           => SuperAdmins(db') \subseteq SuperAdmins(db)]_vars

(* C5: when two concurrent requests to create_database_access for the same   *)
(* user and database have both been answered, at most one grant row for the  *)
(* pair exists and at most one of the two was answered 200; the other was    *)
(* answered 400 "access already exists".                                     *)
C5_OneGrantPerPair ==
    (/\ \A p \in Procs : race[p].pc = "done"
     /\ race[1].user_id = race[2].user_id
     /\ race[1].database_id = race[2].database_id
     /\ \E p \in Procs : race[p].code = 200)
    => /\ Cardinality(GrantsOf(db, race[1].user_id, race[1].database_id)) <= 1
       /\ \E p \in Procs : race[p].code = 400 /\ race[p].detail = "access_exists"

HasUsers(c) == \E u \in Ids(db.users) : db.users[u].client_id = c

InRootOrg(c) ==
    /\ db.clients[c].organization_id \in Ids(db.organizations)
    /\ db.organizations[db.clients[c].organization_id].is_root

SuperCallers == {tok \in tokens : require_role(db, tok, {"super_admin"}) = ""}

(* C6 as stated: delete_client sent by a super admin for a client that still *)
(* has users is answered 400 (Conflict) and leaves the store as it was.      *)
C6_AlwaysConflict ==
    \A tok \in SuperCallers : \A c \in Ids(db.clients) :
        HasUsers(c) =>
            LET r == delete_client(db, tok, c)
            IN  r.code = 400 /\ r.db = db

(* C6: delete_client for a client that still has users fails and leaves the  *)
(* store as it was: with 400 "has users" (Conflict) when the caller passes   *)
(* the super_admin gate and the client is not in a root organization, and    *)
(* with 403 (Forbidden) otherwise.                                           *)
C6_ClientWithUsersStays ==
    \A tok \in tokens : \A c \in Ids(db.clients) :
        HasUsers(c) =>
            LET r == delete_client(db, tok, c)
            IN  /\ r.db = db
                /\ IF tok \in SuperCallers /\ ~InRootOrg(c)
                   THEN r.code = 400 /\ r.detail = "has_users"
                   ELSE r.code = 403

(* C6 witness: delete_client was answered 400 "has users" and the client and *)
(* its user are still there.                                                 *)
C6_Witness ==
    /\ last.op = "delete_client" /\ last.code = 400 /\ last.detail = "has_users"
    /\ \E c \in Ids(db.clients) : HasUsers(c) /\ ~InRootOrg(c)

HasClients(o) == \E c \in Ids(db.clients) : db.clients[c].organization_id = o

(* C7: delete_organization for an organization that is root or still has a   *)
(* client fails (403 or 400) and leaves the store as it was.                 *)
C7_OrganizationStays ==
    \A tok \in tokens : \A o \in Ids(db.organizations) :
        (db.organizations[o].is_root \/ HasClients(o)) =>
            LET r == delete_organization(db, tok, o)
            IN  r.code \in {400, 403} /\ r.db = db

(* C7 witness: delete_organization of an organization that is not root was   *)
(* answered 400 because a client still points to it.                         *)
C7_Witness ==
    /\ last.op = "delete_organization" /\ last.code = 400 /\ last.detail = "has_clients"
    /\ \E o \in Ids(db.organizations) : ~db.organizations[o].is_root /\ HasClients(o)

(* C8: at most one organization has is_root = true.                          *)
C8_AtMostOneRoot ==
    Cardinality({o \in Ids(db.organizations) : db.organizations[o].is_root}) <= 1

RootKept ==
    \A o \in Ids(db.organizations) :
        db.organizations[o].is_root =>
            o \in Ids(db'.organizations) /\ db'.organizations[o].is_root

RootRequestsRejected ==
    \A tok \in tokens : \A o \in Ids(db.organizations) :
        db.organizations[o].is_root =>
            /\ \A name \in OrgNames :
                   LET r == update_organization(db, tok, o, name, FALSE)
                   IN  r.code \in {400, 403} /\ r.db = db
            /\ LET r == delete_organization(db, tok, o)
               IN  r.code = 403 /\ r.db = db

(* C9: an organization that is root is still there and still root after      *)
(* every step, and in every state update_organization with is_root = false   *)
(* and delete_organization on a root organization are rejected and change    *)
(* nothing.                                                                  *)
C9_RootForever == []RootRequestsRejected /\ [][RootKept]_vars

(* C9 witness: a request to take the root flag away was answered 403 and a   *)
(* root organization is still there.                                         *)
C9_Witness ==
    /\ last.op = "update_organization" /\ last.code = 403 /\ last.detail = "remove_root"
    /\ \E o \in Ids(db.organizations) : db.organizations[o].is_root

(* C11: update_user and delete_user sent by a principal stored as admin for  *)
(* a target stored as super_admin are answered 403 (Forbidden) and change    *)
(* nothing; delete_user for a super_admin target is answered 403 whoever     *)
(* sends it.                                                                 *)
C11_SuperAdminUntouchable ==
    \A u \in SuperAdmins(db) :
        /\ \A tok \in tokens : Refused(delete_user(db, tok, u))
        /\ \A tok \in Callers("admin") :
               \A name \in UserNames \cup {db.users[u].username}, role \in Roles,
                  active \in BOOLEAN, cid \in ClientInputs :
                   Refused(update_user(db, tok, u, name, role, active, cid))

(* C11 witness: an admin asked to update a super_admin of its own client and *)
(* was answered 403 by the test on the target's role.                        *)
C11_Witness ==
    /\ last.op = "update_user" /\ last.code = 403 /\ last.detail = "super_admin_target"
    /\ last.by \in Ids(db.users) /\ db.users[last.by].role = "admin"
    /\ \E u \in SuperAdmins(db) : db.users[u].client_id = db.users[last.by].client_id

(* C12: every request of an admin whose client_id is NULL is answered 403    *)
(* "not assigned to a client" and changes no row, also when the target's     *)
(* client_id is NULL.                                                        *)
C12_UnassignedAdminRefused ==
    \A tok \in Callers("admin") \cap Admitted :
        db.users[tok.id].client_id = NULL =>
            \A u \in Ids(db.users) :
                /\ Refused(delete_user(db, tok, u))
                /\ Refused(update_user(db, tok, u, db.users[u].username, "user", TRUE, NULL))
                /\ Refused(revoke_all_user_database_access(db, tok, u))

(* C13: for every existing user, whatever its role, a promote_to_super_admin *)
(* that succeeds followed at once by demote_from_super_admin (by any holder  *)
(* of a super_admin token) leaves the user with role admin and every other   *)
(* field and row as before; demote_from_super_admin for a user that is not   *)
(* super_admin is rejected and changes nothing.                              *)
C13_PromoteThenDemote ==
    \A tok \in tokens, u \in Ids(db.users) :
        LET p == promote_to_super_admin(db, tok, u)
            alone == demote_from_super_admin(db, tok, u)
        IN  /\ p.code = 200 =>
                   \A tok2 \in SuperCallers :
                       LET d == demote_from_super_admin(p.db, tok2, u)
                       IN  /\ d.code = 200
                           /\ d.db.users[u].role = "admin"
                           /\ d.db = [db EXCEPT !.users[u].role = "admin"]
            /\ db.users[u].role # "super_admin" =>
                   alone.code \in {400, 403} /\ alone.db = db

(* C13 witness: bob, created with role user, has role admin right after a    *)
(* demote_from_super_admin that succeeded; promote_to_super_admin and        *)
(* demote_from_super_admin are the only requests that write a role here.     *)
C13_Witness ==
    /\ last.op = "demote_from_super_admin" /\ last.code = 200
    /\ db.users[3].role = "admin"
    /\ Populated.users[3].role = "user"

(* The dispatch in flight, the steps it has taken, and the unified audit     *)
(* rows it has written.                                                      *)
Dispatch == race[Dispatcher]

Took(step) == \E i \in DOMAIN Dispatch.trail : Dispatch.trail[i] = step

Written == {db.audit_log[a] : a \in Dispatch.rows}

(* The tenant names a client, and no client it names has an active           *)
(* TenantRegistry row (the registry is not written while a dispatch runs).   *)
NoActiveRegistry ==
    /\ ClientsLike(db, Dispatch.tenant_id) # {}
    /\ \A c \in ClientsLike(db, Dispatch.tenant_id), r \in Ids(db.tenant_registry) :
           db.tenant_registry[r].client_id = c => ~db.tenant_registry[r].is_active

(* C14 as stated: a dispatch for a tenant whose client exists but has no     *)
(* active TenantRegistry row ends with 503 (UpstreamUnavailable) and has     *)
(* written exactly one unified audit row, with status "error".               *)
C14_UnavailableAudited ==
    (Took("resolve") /\ NoActiveRegistry) =>
        /\ Dispatch.pc = "done" /\ Dispatch.code = 503
        /\ Cardinality(Dispatch.rows) = 1
        /\ \A row \in Written : row.status = "error"

(* C14 amended: such a dispatch ends with 503 (UpstreamUnavailable) right    *)
(* after the resolution, is never forwarded, and writes no unified audit     *)
(* row.                                                                      *)
C14_UnavailableUnaudited ==
    (Took("resolve") /\ NoActiveRegistry) =>
        /\ Dispatch.pc = "done" /\ Dispatch.code = 503
        /\ ~Took("forward")
        /\ Dispatch.rows = {} /\ db.audit_log = NoRow

(* C14 witness: the dispatch of a user with a read grant, for tenant "North" *)
(* whose client has only an inactive registry row, has ended with 503.       *)
C14_Witness ==
    /\ Dispatch.tok.role = "user" /\ Dispatch.tenant_id = <<"N", "o", "r", "t", "h">>
    /\ \E r \in Ids(db.tenant_registry) :
           db.tenant_registry[r].client_id = 1 /\ ~db.tenant_registry[r].is_active
    /\ Dispatch.trail = <<"check", "resolve">>
    /\ Dispatch.pc = "done" /\ Dispatch.code = 503 /\ Dispatch.rows = {}

(* C15 as stated: when the backend answers 200 and the store takes the audit *)
(* write, the dispatch returns 200 with link "/" + lowercase(tenant_id) +    *)
(* "/chat/" + database_name + "/" and has written exactly one unified audit  *)
(* row, with status "success".                                               *)
C15_LinkEndsWithSlash ==
    (Dispatch.pc = "done" /\ Dispatch.answer = "ok" /\ Dispatch.stored) =>
        /\ Dispatch.code = 200
        /\ Dispatch.link = Chars("/") \o Lower(Dispatch.tenant_id) \o Chars("/chat/")
                           \o Chars(Dispatch.database_name) \o Chars("/")
        /\ Cardinality(Dispatch.rows) = 1
        /\ \A row \in Written : row.status = "success"

(* The forward of the dispatch was attempted and failed.                     *)
ForwardFailed ==
    Dispatch.pc = "done" /\ Took("forward") /\ Dispatch.answer # "ok"

(* C16 as stated: a dispatch whose forward failed has written exactly one    *)
(* unified audit row, with status "error", and answers with a failure; no    *)
(* dispatch writes more than one row.                                        *)
C16_ExactlyOneErrorRow ==
    /\ Cardinality(Dispatch.rows) <= 1
    /\ ForwardFailed =>
           /\ Dispatch.code \in {500, 502}
           /\ Cardinality(Dispatch.rows) = 1
           /\ \A row \in Written : row.status = "error"

(* C16 amended: a dispatch whose forward failed answers with a failure (502  *)
(* or 500) and has written one unified audit row with status "error" when    *)
(* the store took the write and none when the store refused it; no dispatch  *)
(* writes more than one row.                                                 *)
C16_AtMostOneErrorRow ==
    /\ Cardinality(Dispatch.rows) <= 1
    /\ Cardinality(Ids(db.audit_log)) <= 1
    /\ ForwardFailed =>
           /\ Dispatch.code \in {500, 502}
           /\ \A row \in Written : row.status = "error"
           /\ Cardinality(Dispatch.rows) = IF Dispatch.stored THEN 1 ELSE 0

(* C16 witness: the backend answered with another status than 200, the store *)
(* refused the audit write, and the dispatch ended with 502 and no row.      *)
C16_Witness ==
    /\ ForwardFailed /\ Dispatch.answer = "status" /\ ~Dispatch.stored
    /\ Dispatch.code = 502 /\ Dispatch.rows = {} /\ db.audit_log = NoRow

(* C20: when the store refuses the write of a unified audit event, no        *)
(* exception leaves log_unified, nothing is stored (the write is rolled      *)
(* back) and no row is returned; and for every answer of the backend the     *)
(* dispatch returns the same status and the same link as it does when the    *)
(* write is stored.                                                          *)
C20_AuditFailureContained ==
    Dispatch.pc = "sent" =>
        \A answer \in BackendAnswers, again \in BOOLEAN :
            LET log == log_unified(db, Dispatch.tok.id, Dispatch.tok.role,
                                   AfterForward(answer).status, Dispatch.tenant_id,
                                   Dispatch.database_name, FALSE)
                kept == answer_of_core(db, Dispatch, answer, TRUE, again)
                lost == answer_of_core(db, Dispatch, answer, FALSE, again)
            IN  /\ ~log.raised /\ log.made = 0 /\ log.db = db
                /\ lost.code = kept.code /\ lost.link = kept.link
                /\ lost.db = db /\ lost.rows = {}
                /\ kept.rows # {}

(* C20 witness: the backend answered 200, the store refused the audit write, *)
(* and the dispatch returned 200 with its link and left no audit row.        *)
C20_Witness ==
    /\ Dispatch.pc = "done" /\ Dispatch.answer = "ok" /\ ~Dispatch.stored
    /\ Dispatch.code = 200 /\ Dispatch.link # <<>>
    /\ Dispatch.rows = {} /\ db.audit_log = NoRow

(* The grants with can_read of the principal on a database of this name.     *)
ReadableByName(s, user_id, database_name) ==
    {a \in Ids(s.user_database_access) :
        /\ s.user_database_access[a].user_id = user_id
        /\ s.user_database_access[a].can_read
        /\ s.user_database_access[a].database_id \in DatabasesNamed(s, database_name)}

(* C17: a dispatch resolves the tenant only after the access check and       *)
(* forwards only after the resolution; and the access check of a principal   *)
(* that is not super_admin lets the dispatch go on only if, in the store as  *)
(* it is at that step, the principal has a grant with can_read on a database *)
(* of the requested name (a grant without can_read does not count).          *)
C17_CheckBeforeForward ==
    /\ [](/\ Took("resolve") => Dispatch.trail[1] = "check"
          /\ Took("forward") => /\ Len(Dispatch.trail) >= 3
                                /\ Dispatch.trail[2] = "resolve"
                                /\ Dispatch.trail[3] = "forward"
          /\ Dispatch.pc \in {"resolve", "forward", "sent"} => Took("check"))
    /\ [][(/\ Dispatch.pc = "begin"
           /\ race'[Dispatcher].pc = "resolve"
           /\ Dispatch.tok.role # "super_admin")
          => ReadableByName(db, Dispatch.tok.id, Dispatch.database_name) # {}]_vars

(* C17 witness: the dispatch of a user has been forwarded, and the grant it  *)
(* was checked against has been revoked since: the user has no grant with    *)
(* can_read any more.                                                        *)
C17_Witness ==
    /\ Dispatch.tok.role = "user" /\ Took("forward")
    /\ ReadableByName(db, Dispatch.tok.id, Dispatch.database_name) = {}

(* The clients the tenant of the dispatch names whose active registry row    *)
(* holds the backend the dispatch was resolved to.                           *)
ResolvedClients ==
    {c \in ClientsLike(db, Dispatch.tenant_id) :
        \E r \in ActiveRegistry(db, c) :
            db.tenant_registry[r].core_url = Dispatch.core_url}

(* C18 as stated: a dispatch of a principal that is not super_admin is       *)
(* forwarded to the backend of a tenant only if the principal belongs to the *)
(* tenant's client and a database of the requested name belongs to that      *)
(* client.                                                                   *)
C18_ForwardWithinClient ==
    (Took("forward") /\ Dispatch.tok.role # "super_admin") =>
        \E c \in ResolvedClients :
            /\ Dispatch.tok.id \in Ids(db.users)
            /\ db.users[Dispatch.tok.id].client_id = c
            /\ \E d \in DatabasesNamed(db, Dispatch.database_name) :
                   db.client_databases[d].client_id = c

(* The step is a call of log_access that follows another call with the same  *)
(* actor, action, target type and target id, less than the dedup window of   *)
(* the second call after it; the first call returned a stored row, and       *)
(* neither the dedup query nor the commit of the second call failed.         *)
SecondCallInWindow ==
    /\ race'.now = race.now /\ race.call.calls = 1
    /\ race'.call.actor = race.call.actor
    /\ race'.call.target_id = race.call.target_id
    /\ race.call.id # NULL
    /\ race'.call.dedupe_seconds > 0
    /\ race'.call.at - race.call.at < race'.call.dedupe_seconds * TicksPerSecond
    /\ race'.call.looked /\ race'.call.stored

(* C19 as stated: the second of two calls of log_access within the dedup     *)
(* window with the same actor, action, target type and target id returns the *)
(* id the first returned and stores no row; a call with dedupe_seconds 0 (or *)
(* none) whose commit succeeds stores a new row.                             *)
C19_SameRowWithinWindow ==
    /\ [][SecondCallInWindow =>
             /\ race'.call.id = race.call.id
             /\ db'.access_audit = db.access_audit]_vars
    /\ [][(/\ race'.now = race.now /\ race' # race
           /\ race'.call.dedupe_seconds = 0 /\ race'.call.stored)
          => /\ race'.call.id \notin Ids(db.access_audit)
             /\ Ids(db'.access_audit) = Ids(db.access_audit) \cup {race'.call.id}]_vars

(* C21 as stated: every request that changes a row of the hierarchy (an      *)
(* administrative mutation that succeeded) adds exactly one access_audit     *)
(* row, and the rows of audit_log and access_audit that exist stay as they   *)
(* are.                                                                      *)
C21_MutationsAudited ==
    [][db' # db =>
          /\ Cardinality(Ids(db'.access_audit)) = Cardinality(Ids(db.access_audit)) + 1
          /\ \A a \in Ids(db.access_audit) :
                 a \in Ids(db'.access_audit) /\ db'.access_audit[a] = db.access_audit[a]
          /\ \A a \in Ids(db.audit_log) :
                 a \in Ids(db'.audit_log) /\ db'.audit_log[a] = db.audit_log[a]]_vars

(* The clients whose name matches the tenant id as a pattern of LIKE,        *)
(* without regard to case.                                                   *)
Matching(tenant_id) ==
    {c \in Ids(db.clients) : ILike(Chars(db.clients[c].name), tenant_id)}

(* The step is a call of get_core_url that repeats the tenant id of the call *)
(* before it, with no change of a client or registry row in between.         *)
RepeatedCall == race'.fresh /\ race'.repeated

Named(tenant_id) ==
    {c \in Ids(db.clients) : Lower(Chars(db.clients[c].name)) = Lower(tenant_id)}

(* C23 as stated: a call of get_core_url fails with 404 (tenant not found)   *)
(* when no client name is the tenant id without regard to case, fails with   *)
(* 503 (no active backend) when that client has no registry row with         *)
(* is_active in the store as it is at the call, and otherwise returns that   *)
(* row's core_url.                                                           *)
C23_ResolveByName ==
    race.fresh =>
        IF Named(race.tenant_id) = {} THEN race.code = 404
        ELSE \A c \in Named(race.tenant_id) :
                IF \E g \in Ids(db.tenant_registry) :
                       /\ db.tenant_registry[g].client_id = c
                       /\ db.tenant_registry[g].is_active
                THEN /\ race.code = 200
                     /\ \E g \in Ids(db.tenant_registry) :
                            /\ db.tenant_registry[g].client_id = c
                            /\ db.tenant_registry[g].core_url = race.core_url
                ELSE race.code = 503

(* C24: a delete_user that succeeds leaves no row of the user: the user row, *)
(* its chats, the messages of those chats and its permission rows are gone   *)
(* and no grant names the user, while the rows of other users stay; a        *)
(* delete_user that is rejected leaves the store as it was.                  *)
C24_DeleteUserCascades ==
    \A tok \in tokens, u \in UserIds :
        LET r == delete_user(db, tok, u)
        IN  IF r.code = 200
            THEN /\ u \notin Ids(r.db.users)
                 /\ ChatsOf(r.db, u) = {} /\ PermissionsOf(r.db, u) = {}
                 /\ \A m \in Ids(r.db.messages) :
                        r.db.messages[m].chat_id \notin ChatsOf(db, u)
                 /\ \A a \in Ids(r.db.user_database_access) :
                        r.db.user_database_access[a].user_id # u
                 /\ \A c \in Ids(db.chats) \ ChatsOf(db, u) : c \in Ids(r.db.chats)
                 /\ \A m \in Ids(db.messages) \ MessagesOf(db, u) : m \in Ids(r.db.messages)
            ELSE r.db = db

(* C24 witness: bob, who owned a chat with a message and a permission row,   *)
(* has been deleted, and ann's chat and message are still there.             *)
C24_Witness ==
    /\ last.op = "delete_user" /\ last.code = 200
    /\ 3 \notin Ids(db.users)
    /\ Ids(db.chats) = {2} /\ Ids(db.messages) = {2} /\ Ids(db.user_permissions) = {}

(* The tokens issued while their user was stored as super_admin and carried  *)
(* on after the stored role was lowered.                                     *)
Stale ==
    {tok \in tokens : /\ tok.role = "super_admin"
                      /\ tok.id \in Ids(db.users)
                      /\ db.users[tok.id].role # "super_admin"}

(* C28 as stated: a request that carries a token issued before its user's    *)
(* stored role was lowered performs no super_admin-only operation (promote   *)
(* and demote are answered 403 and change nothing) and deletes no user and   *)
(* no database of another client.                                            *)
C28_StoredRoleGoverns ==
    \A tok \in Stale :
        /\ \A u \in Ids(db.users) :
               /\ Refused(promote_to_super_admin(db, tok, u))
               /\ Refused(demote_from_super_admin(db, tok, u))
        /\ \A u \in Ids(db.users) :
               db.users[u].client_id # db.users[tok.id].client_id
                   => Refused(delete_user(db, tok, u))
        /\ \A d \in Ids(db.client_databases) :
               db.client_databases[d].client_id # db.users[tok.id].client_id
                   => Refused(delete_database(db, tok, d))

(* C26: a request of an administrative mutation that is answered with an     *)
(* error leaves every stored row as it was; an update_user or an             *)
(* update_database answered 404 because the client it names does not exist   *)
(* keeps every field of its target, although the handler assigned the new    *)
(* values before it looked for the client.                                   *)
C26_FailedRequestChangesNothing == [][~Ok([code |-> last'.code]) => db' = db]_vars

(* C26 witness: an update_user has been answered 404 for the client it names *)
(* in a store where some user is stored as not active.                        *)
C26_Witness ==
    /\ last.op = "update_user" /\ last.code = 404 /\ last.detail = "client_not_found"
    /\ \E u \in Ids(db.users) : ~db.users[u].is_active

(* C25: once a sweep of list_users has been committed, no user is stored as  *)
(* active with a last_login more than 30 minutes before the time of the      *)
(* latest committed sweep; and however many sweeps ran, one after another or *)
(* interleaved, the users are what one sweep at that time makes of the users *)
(* the sweeps started from.                                                  *)
C25_SweepSettles ==
    /\ race.done # 0 =>
           \A u \in Ids(db.users) :
               ~ /\ db.users[u].is_active
                 /\ db.users[u].last_login # NULL
                 /\ (race.done - db.users[u].last_login) * TickMinutes > 30
    /\ db.users = Deactivate(race.start, Outdated(race.start, race.done)).users

(* C25 witness: two sweeps that overlapped have both been committed and      *)
(* a user who was active at the start has been deactivated.                  *)
C25_Witness ==
    /\ race.overlapped /\ race.sweeps >= 2
    /\ \A p \in Procs : race.pc[p] = "idle"
    /\ \E u \in Ids(db.users) : race.start.users[u].is_active /\ ~db.users[u].is_active

(* The user who sent the latest request, as stored.                          *)
Sender == db.users[last.by]

(* The ids of the rows of the latest response.                               *)
Returned == {last.items[i] : i \in 1..Len(last.items)}

(* The rows of `table` of client c: the users, the databases and the client  *)
(* itself by their client_id, the grants through their user.                 *)
RowsOf(table, c) ==
    CASE table = "users" -> {u \in Ids(db.users) : db.users[u].client_id = c}
      [] table = "client_databases" ->
             {d \in Ids(db.client_databases) : db.client_databases[d].client_id = c}
      [] table = "clients" -> Ids(db.clients) \cap {c}
      [] table = "user_database_access" ->
             {a \in Filtered(db, race.asked.user_id, race.asked.database_id) :
                  db.users[db.user_database_access[a].user_id].client_id = c}

AllRows(table) ==
    IF table = "user_database_access"
    THEN Filtered(db, race.asked.user_id, race.asked.database_id)
    ELSE Ids(db[table])

ListedTable ==
    CASE last.op = "list_users" -> "users"
      [] last.op = "list_databases" -> "client_databases"
      [] last.op = "list_clients" -> "clients"
      [] last.op = "list_database_access" -> "user_database_access"

(* C27 as stated: a listing (list_users, list_databases, list_clients,       *)
(* list_database_access) that passed the gate and was sent by an admin with  *)
(* client_id c returns exactly the rows of client c, and sent by a           *)
(* super_admin it returns every row.                                         *)
C27_ListsExactlyTheClient ==
    (/\ last.op \in {"list_users", "list_databases", "list_clients",
                     "list_database_access"}
     /\ last.detail \notin {"inactive", "role"}
     /\ Sender.role = "super_admin" \/ Sender.client_id # NULL)
    => /\ last.code = 200
       /\ Returned = IF Sender.role = "super_admin" THEN AllRows(ListedTable)
                     ELSE RowsOf(ListedTable, Sender.client_id)

(* C29 as stated: a request sent by a user stored as admin with client_id c  *)
(* leaves the users of every other client as they were, and a list_users     *)
(* answered 403 changes no row.                                              *)
C29_OtherClientsUntouched ==
    [][(/\ last'.op \in {"list_users", "list_databases", "list_clients",
                         "list_database_access", "update_user"}
        /\ db.users[last'.by].role = "admin")
       => /\ db.users[last'.by].client_id # NULL =>
                 \A u \in Ids(db.users) :
                     db.users[u].client_id # db.users[last'.by].client_id
                         => db'.users[u] = db.users[u]
          /\ (last'.op = "list_users" /\ last'.code = 403) => db' = db]_vars

(* C30 as stated: a user whose is_active was turned off by a logout or by    *)
(* the sweep and who has not logged in since has every request refused with  *)
(* 403 and no change; and a login that succeeded has left the user active    *)
(* with last_login at the time of the login.                                 *)
C30_RefusedUntilLogin ==
    /\ \A tok \in tokens :
           tok.id \in race.out =>
               /\ Refused(list_users(db, tok, race.now))
               /\ Refused(list_databases(db, tok))
               /\ \A u \in Ids(db.users) :
                      /\ Refused(update_user(db, tok, u, db.users[u].username,
                                             db.users[u].role, TRUE, NULL))
                      /\ Refused(delete_user(db, tok, u))
    /\ (last.op = "login" /\ last.code = 200) =>
           /\ db.users[last.by].is_active
           /\ db.users[last.by].last_login = race.stamp

====
